---- MODULE Spec2Model ----
(***************************************************************************)
(* Learn mode of the study application (src/src/components/LearnMode.tsx): *)
(* the answer grader checkAnswer and the drill state machine of the        *)
(* LearnMode component (React state, click handlers, the 400 ms            *)
(* auto-advance timer, the render that follows every state update and the   *)
(* progress saved in localStorage for a later resume).                      *)
(* Further: the choice parser parseChoices (LearnMode, QuizMode, SetView), *)
(* the bulk importer (parseQuestions and the BulkImport component, in its  *)
(* two copies) and the REST routes of the study sets on the server.        *)
(*                                                                         *)
(* A JavaScript string is a sequence of one-character strings, an array a  *)
(* sequence; JavaScript indices are 0-based, At(a, i) reads a[i].          *)
(***************************************************************************)
EXTENDS Integers, Sequences, FiniteSets, TLC

VARIABLES
    \* the prop studySet of LearnMode: its questions, each with the letters
    \* of the choices in its questionText and its correctAnswer
    studySet,
    \* React state of LearnMode (useState, lines 51-59)
    currentIndex, selectedAnswers, showAnswer, isCorrect, wrongIndices,
    isReviewMode, reviewIndex, masteredCount, isComplete,
    \* React state of the resume prompt (useState, lines 60-61); savedProgress
    \* is {} for null, else the set of the one saved record
    showResumePrompt, savedProgress,
    \* localStorage[storageKey]: {} for no item, else the set of the one
    \* saved record
    storage,
    \* TRUE while App shows the LearnMode component
    mounted,
    \* history: how many times the component has been mounted
    mounts,
    \* pending setTimeout callbacks, oldest first: each is what advanceToNext
    \* reads from the closure of the render in which checkAndShowAnswer
    \* scheduled it
    timers,
    \* TRUE once a render of the component has thrown (the tree is unmounted)
    renderError,
    \* history: the questions answered correctly since the component was
    \* mounted or restarted
    answeredCorrectly,
    \* inputs and result of checkAnswer, for the specification of the grader
    gSelected, gCorrect, gResult,
    \* input of parseChoices and its results in LearnMode and in SetView, for
    \* the specification of the parser
    pText, pResult, pSetView,
    \* which of the two copies of the bulk importer is running: "part_005"
    \* for src/unnamed/part_005, "BulkImport.tsx" for
    \* src/src/components/BulkImport.tsx
    build,
    \* React state of BulkImport (useState, lines 21-27)
    mode, bulkText, parsedQuestions, isParsed, error, isLoading,
    \* the file that handlePdfUpload is reading: {} for none, else the set of
    \* the one file
    pdfUpload,
    \* history: how many pieces bulkText has been written from
    pasted,
    \* the StudySet collection of the database: a function from the _id of
    \* each stored document to the document
    studySets,
    \* Date.now() of the server, and how many _ids have been given out
    clock, created,
    \* the request handled last and the response sent to it
    request, response,
    \* the PUT requests that await set.save(): a set of records
    pendingPut,
    \* history: the blocks a generated document was written from; the
    \* document; what parseQuestions returns for it in src/unnamed/part_005
    \* and in src/src/components/BulkImport.tsx
    dBlocks, dText, dRecords, dRecordsBulkImport

drillVars == <<currentIndex, selectedAnswers, showAnswer, isCorrect, wrongIndices,
               isReviewMode, reviewIndex, masteredCount, isComplete>>
sessionVars == <<showResumePrompt, savedProgress, mounted, mounts>>
learnVars == <<currentIndex, selectedAnswers, showAnswer, isCorrect, wrongIndices,
               isReviewMode, reviewIndex, masteredCount, isComplete,
               showResumePrompt, savedProgress, storage, mounted, mounts, timers,
               renderError, answeredCorrectly>>
gradeVars == <<gSelected, gCorrect, gResult>>
parseVars == <<pText, pResult, pSetView>>
importVars == <<build, mode, bulkText, parsedQuestions, isParsed, error, isLoading,
                pdfUpload, pasted>>
serverVars == <<studySets, clock, created, request, response, pendingPut>>
extractVars == <<dBlocks, dText, dRecords, dRecordsBulkImport>>
\* a prop is not written by the component
propVars == <<studySet>>
\* the variables that the actions of one component leave alone
nonLearnVars ==
    <<propVars, gradeVars, parseVars, importVars, serverVars, extractVars>>
nonGradeVars ==
    <<propVars, learnVars, parseVars, importVars, serverVars, extractVars>>
nonParseVars ==
    <<propVars, learnVars, gradeVars, importVars, serverVars, extractVars>>
nonImportVars ==
    <<propVars, learnVars, gradeVars, parseVars, serverVars, extractVars>>
nonExtractVars ==
    <<propVars, learnVars, gradeVars, parseVars, importVars, serverVars>>
nonServerVars ==
    <<propVars, learnVars, gradeVars, parseVars, importVars, extractVars>>
vars == <<studySet, currentIndex, selectedAnswers, showAnswer, isCorrect, wrongIndices,
          isReviewMode, reviewIndex, masteredCount, isComplete,
          showResumePrompt, savedProgress, storage, mounted, mounts, timers,
          renderError, answeredCorrectly, gSelected, gCorrect, gResult,
          pText, pResult, pSetView, build, mode, bulkText, parsedQuestions,
          isParsed, error, isLoading, pdfUpload, pasted, studySets, clock,
          created, request, response, pendingPut, dBlocks, dText, dRecords,
          dRecordsBulkImport>>

----------------------------------------------------------------------------
(* Bounds *)

\* number of questions of the study set
NumQuestions == 3
\* most auto-advance timers pending at once
MaxTimers == 2
\* most mounts of the LearnMode component
MaxMounts == 2
\* most characters of a generated questionText
MaxTextLen == 9
\* most comma-separated tokens of a generated correctAnswer
MaxTokens == 3
\* most pieces that the text of the bulk importer is written from
MaxPasted == 3
\* most documents ever created in the StudySet collection
MaxSets == 2
\* most saves of a document
MaxClock == 2

----------------------------------------------------------------------------
(* JavaScript strings *)

At(a, i) == a[i + 1]

\* the letters and digits, in the order of their code units
UpperLetters ==
    <<"A", "B", "C", "D", "E", "F", "G", "H", "I", "J", "K", "L", "M", "N",
      "O", "P", "Q", "R", "S", "T", "U", "V", "W", "X", "Y", "Z">>
LowerLetters ==
    <<"a", "b", "c", "d", "e", "f", "g", "h", "i", "j", "k", "l", "m", "n",
      "o", "p", "q", "r", "s", "t", "u", "v", "w", "x", "y", "z">>
Digits == <<"0", "1", "2", "3", "4", "5", "6", "7", "8", "9">>

Range(a) == {a[i] : i \in 1..Len(a)}

UpperSet == Range(UpperLetters)
LowerSet == Range(LowerLetters)
DigitSet == Range(Digits)

\* the characters used
Chars ==
    UpperSet \cup LowerSet \cup DigitSet
        \cup {" ", "\n", "&", "(", ")", "+", ",", ".", ":", "?"}

\* JavaScript strings, and arrays of strings
Strings == Seq(Chars)
StringArrays == Seq(Strings)

\* the place of c in the sequence a
IndexIn(a, c) == CHOOSE k \in 1..Len(a) : a[k] = c

\* UTF-16 code units of the characters used
CharCode(c) ==
    IF c \in UpperSet THEN 64 + IndexIn(UpperLetters, c)
    ELSE IF c \in LowerSet THEN 96 + IndexIn(LowerLetters, c)
    ELSE IF c \in DigitSet THEN 47 + IndexIn(Digits, c)
    ELSE CASE c = "\n" -> 10
           [] c = " " -> 32
           [] c = "&" -> 38
           [] c = "(" -> 40
           [] c = ")" -> 41
           [] c = "+" -> 43
           [] c = "," -> 44
           [] c = "." -> 46
           [] c = ":" -> 58
           [] c = "?" -> 63

\* the upper-case and the lower-case form of every character used
UpperOf ==
    [c \in Chars |->
        IF c \in LowerSet THEN UpperLetters[IndexIn(LowerLetters, c)] ELSE c]
LowerOf ==
    [c \in Chars |->
        IF c \in UpperSet THEN LowerLetters[IndexIn(UpperLetters, c)] ELSE c]

UpperChar(c) == UpperOf[c]

LowerChar(c) == LowerOf[c]

\* \s, for the characters used
IsSpace(c) == c \in {" ", "\n"}

\* String.prototype.toUpperCase
ToUpperCase(s) == [i \in 1..Len(s) |-> UpperChar(s[i])]

ToLowerCase(s) == [i \in 1..Len(s) |-> LowerChar(s[i])]

\* String.prototype.trim
Trim[s \in Strings] ==
    IF s = <<>> THEN s
    ELSE IF IsSpace(Head(s)) THEN Trim[Tail(s)]
    ELSE IF IsSpace(s[Len(s)]) THEN Trim[SubSeq(s, 1, Len(s) - 1)]
    ELSE s

\* String.prototype.split(',')
SplitComma[s \in Strings] ==
    IF \A i \in 1..Len(s) : s[i] # ","
    THEN <<s>>
    ELSE LET k == CHOOSE i \in 1..Len(s) :
                      s[i] = "," /\ \A j \in 1..(i - 1) : s[j] # ","
         IN  <<SubSeq(s, 1, k - 1)>> \o SplitComma[SubSeq(s, k + 1, Len(s))]

\* a < b in JavaScript's string order (by code unit, a proper prefix first)
StrLess[a \in Strings, b \in Strings] ==
    IF b = <<>> THEN FALSE
    ELSE IF a = <<>> THEN TRUE
    ELSE IF CharCode(Head(a)) # CharCode(Head(b))
         THEN CharCode(Head(a)) < CharCode(Head(b))
    ELSE StrLess[Tail(a), Tail(b)]

\* Array.prototype.sort() without a comparator, on an array of strings
InsertSorted[x \in Strings, sorted \in StringArrays] ==
    IF sorted = <<>> THEN <<x>>
    ELSE IF StrLess[x, Head(sorted)] THEN <<x>> \o sorted
    ELSE <<Head(sorted)>> \o InsertSorted[x, Tail(sorted)]

SortStrings[a \in StringArrays] ==
    IF a = <<>> THEN <<>>
    ELSE InsertSorted[a[Len(a)], SortStrings[SubSeq(a, 1, Len(a) - 1)]]


----------------------------------------------------------------------------
(* The answer grader *)

\* hasMultipleAnswers: correctAnswer.includes(',')
hasMultipleAnswers(correctAnswer) == \E i \in 1..Len(correctAnswer) : correctAnswer[i] = ","

\* getCorrectAnswers: correctAnswer.split(',').map(a => a.trim().toUpperCase())
getCorrectAnswers(correctAnswer) ==
    LET parts == SplitComma[correctAnswer]
    IN  [i \in 1..Len(parts) |-> ToUpperCase(Trim[parts[i]])]

\* checkAnswer without the comparison of the two lengths
checkAnswerNoLengthCheck(selected, correct) ==
    IF Len(selected) = 0 THEN FALSE
    ELSE LET selectedSorted == SortStrings[selected]
             correctSorted == SortStrings[getCorrectAnswers(correct)]
         IN  \A i \in 1..Len(selectedSorted) :
                 i <= Len(correctSorted) /\ selectedSorted[i] = correctSorted[i]

\* checkAnswer without the two sorts
checkAnswerUnsorted(selected, correct) ==
    IF Len(selected) = 0 THEN FALSE
    ELSE LET correctArr == getCorrectAnswers(correct)
         IN  IF Len(selected) # Len(correctArr) THEN FALSE
             ELSE \A i \in 1..Len(selected) : selected[i] = correctArr[i]

\* checkAnswer(selected, correct)
checkAnswer(selected, correct) ==
    IF Len(selected) = 0 THEN FALSE
    ELSE LET correctArr == getCorrectAnswers(correct)
         IN  IF Len(selected) # Len(correctArr) THEN FALSE
             ELSE LET selectedSorted == SortStrings[selected]
                      correctSorted == SortStrings[correctArr]
                  IN  \A i \in 1..Len(selectedSorted) :
                          selectedSorted[i] = correctSorted[i]

----------------------------------------------------------------------------
(* The choice parser *)

\* the letters of the character class of choiceRegex: [A-E] in LearnMode and
\* QuizMode, [A-J] in SetView
LearnChoiceRange == {"A", "B", "C", "D", "E"}
SetViewChoiceRange == {"A", "B", "C", "D", "E", "F", "G", "H", "I", "J"}

\* ([A-E])[.)] matches at position p of text (flag i: in either case)
MarkerAt(range, text, p) ==
    /\ p + 1 <= Len(text)
    /\ UpperChar(text[p]) \in range
    /\ text[p + 1] \in {".", ")"}

\* the lookahead (?=(?:[A-E][.)]\s)|$) matches at position q of text
LookaheadAt(range, text, q) ==
    \/ q = Len(text) + 1
    \/ /\ MarkerAt(range, text, q)
       /\ q + 2 <= Len(text)
       /\ IsSpace(text[q + 2])

\* the least element of a non-empty set of numbers
Least(S) == CHOOSE n \in S : \A m \in S : n <= m

\* replace(/\s+/g, ' ')
CollapseSpaces[s \in Strings] ==
    IF s = <<>> THEN <<>>
    ELSE IF Len(s) >= 2 /\ IsSpace(s[1]) /\ IsSpace(s[2]) THEN CollapseSpaces[Tail(s)]
    ELSE IF IsSpace(s[1]) THEN <<" ">> \o CollapseSpaces[Tail(s)]
    ELSE <<s[1]>> \o CollapseSpaces[Tail(s)]

\* the while loop over choiceRegex.exec(text), lastIndex being from - 1:
\* the match starts at the first marker, \s* takes the blanks after it, the
\* lazy group 2 ends at the first position where the lookahead matches
RECURSIVE ExecChoices(_, _, _, _)
ExecChoices(range, text, from, matches) ==
    IF \A p \in from..Len(text) : ~MarkerAt(range, text, p)
    THEN matches
    ELSE LET p == Least({i \in from..Len(text) : MarkerAt(range, text, i)})
             s == Least({i \in (p + 2)..(Len(text) + 1) :
                            i = Len(text) + 1 \/ ~IsSpace(text[i])})
             q == Least({i \in s..(Len(text) + 1) : LookaheadAt(range, text, i)})
             letter == <<UpperChar(text[p])>>
             choiceText == CollapseSpaces[Trim[SubSeq(text, s, q - 1)]]
         IN  ExecChoices(range, text, q,
                 IF choiceText # <<>> /\ \A k \in 1..Len(matches) : matches[k].letter # letter
                 THEN Append(matches, [letter |-> letter, text |-> choiceText, index |-> p - 1])
                 ELSE matches)

\* matches.sort((a, b) => a.letter.localeCompare(b.letter)): a stable sort
RECURSIVE InsertByLetter(_, _)
InsertByLetter(m, sorted) ==
    IF sorted = <<>> THEN <<m>>
    ELSE IF StrLess[m.letter, Head(sorted).letter] THEN <<m>> \o sorted
    ELSE <<Head(sorted)>> \o InsertByLetter(m, Tail(sorted))

RECURSIVE SortByLetter(_)
SortByLetter(matches) ==
    IF matches = <<>> THEN <<>>
    ELSE InsertByLetter(matches[Len(matches)],
                        SortByLetter(SubSeq(matches, 1, Len(matches) - 1)))

\* parseChoices as it would be without matches.sort(...)
parseChoicesUnsorted(range, text) ==
    LET matches == ExecChoices(range, text, 1, <<>>)
        firstChoiceIndex == Least({matches[k].index : k \in 1..Len(matches)})
    IN  [questionPart |->
             IF Len(matches) > 0
             THEN CollapseSpaces[Trim[SubSeq(text, 1, firstChoiceIndex)]]
             ELSE Trim[CollapseSpaces[text]],
         choices |->
             [k \in 1..Len(matches) |->
                 [letter |-> matches[k].letter, text |-> matches[k].text]]]

\* parseChoices with the character class `range`
parseChoicesIn(range, text) ==
    LET matches == SortByLetter(ExecChoices(range, text, 1, <<>>))
        firstChoiceIndex == Least({matches[k].index : k \in 1..Len(matches)})
    IN  [questionPart |->
             IF Len(matches) > 0
             THEN CollapseSpaces[Trim[SubSeq(text, 1, firstChoiceIndex)]]
             ELSE Trim[CollapseSpaces[text]],
         choices |->
             [k \in 1..Len(matches) |->
                 [letter |-> matches[k].letter, text |-> matches[k].text]]]

\* parseChoices of LearnMode (and of QuizMode, which has the same code)
parseChoices(text) == parseChoicesIn(LearnChoiceRange, text)

\* parseChoices of SetView
parseChoicesSetView(text) == parseChoicesIn(SetViewChoiceRange, text)

----------------------------------------------------------------------------
(* The bulk importer: parseQuestions *)

\* the words the importer looks for
WordExplanation ==
    <<"E", "x", "p", "l", "a", "n", "a", "t", "i", "o", "n", ":">>
WordReference ==
    <<"R", "e", "f", "e", "r", "e", "n", "c", "e", ":">>
WordQuestion ==
    <<"Q", "u", "e", "s", "t", "i", "o", "n", ":">>
WordAnswer ==
    <<"A", "n", "s", "w", "e", "r", ":">>
WordAnswers ==
    <<"A", "n", "s", "w", "e", "r", "s", ":">>

\* the letters of the character classes of the answer key: [A-J] in
\* src/unnamed/part_005, [A-E] in src/src/components/BulkImport.tsx
KeyRange == SetViewChoiceRange
KeyRangeBulkImport == LearnChoiceRange

\* the greatest element of a non-empty set of numbers
Greatest(S) == CHOOSE n \in S : \A m \in S : m <= n

\* the literal word matches at position p of text (flag i: in either case)
LiteralAt(word, text, p) ==
    /\ p + Len(word) - 1 <= Len(text)
    /\ \A k \in 1..Len(word) : LowerChar(text[p + k - 1]) = LowerChar(word[k])

\* where a greedy \s* that starts at position p ends
SkipSpaces(text, p) ==
    Least({q \in p..(Len(text) + 1) : q = Len(text) + 1 \/ ~IsSpace(text[q])})

\* where a greedy \d* that starts at position p ends
SkipDigits(text, p) ==
    Least({q \in p..(Len(text) + 1) : q = Len(text) + 1 \/ text[q] \notin DigitSet})

\* where a greedy [A-J]* that starts at position p ends
SkipLetters(range, text, p) ==
    Least({q \in p..(Len(text) + 1) :
              q = Len(text) + 1 \/ UpperChar(text[q]) \notin range})

\* text.replace(/word[\s\S]*?(?=stop|...|$)/gi, '\n'), from position p on:
\* a match starts at the first place of the word, its lazy body ends at the
\* first position where a stop word or the end of the text follows
RECURSIVE ReplaceSections(_, _, _, _)
ReplaceSections(text, word, stops, p) ==
    LET starts == {r \in p..Len(text) : LiteralAt(word, text, r)}
        start == Least(starts)
        end == Least({r \in (start + Len(word))..(Len(text) + 1) :
                         \/ r = Len(text) + 1
                         \/ \E stop \in stops : LiteralAt(stop, text, r)})
    IN  IF starts = {} THEN SubSeq(text, p, Len(text))
        ELSE SubSeq(text, p, start - 1) \o <<"\n">>
                 \o ReplaceSections(text, word, stops, end)

\* the length of what Answer[s]?: matches at position p, 0 for no match
AnswerSepLen(text, p) ==
    IF LiteralAt(WordAnswers, text, p) THEN Len(WordAnswers)
    ELSE IF LiteralAt(WordAnswer, text, p) THEN Len(WordAnswer)
    ELSE 0

\* text.split(/Answer[s]?:\s*/i), from position p on
RECURSIVE SplitAnswers(_, _)
SplitAnswers(text, p) ==
    LET separators == {r \in p..Len(text) : AnswerSepLen(text, r) > 0}
        start == Least(separators)
        end == SkipSpaces(text, start + AnswerSepLen(text, start))
    IN  IF separators = {} THEN <<SubSeq(text, p, Len(text))>>
        ELSE <<SubSeq(text, p, start - 1)>> \o SplitAnswers(text, end)

\* [,&and\s] (flag i: in either case)
IsSeparator(c) == IsSpace(c) \/ LowerChar(c) \in {",", "&", "a", "n", "d"}

\* where (?:\s*[,&and\s]+\s*[A-J])* that starts at position p ends: each
\* round takes the longest run of separators that a letter of the range
\* follows, and that letter
RECURSIVE MoreLetters(_, _, _)
MoreLetters(range, text, p) ==
    LET letters == {r \in (p + 1)..Len(text) :
                       /\ UpperChar(text[r]) \in range
                       /\ \A k \in p..(r - 1) : IsSeparator(text[k])}
    IN  IF letters = {} THEN p
        ELSE MoreLetters(range, text, Greatest(letters) + 1)

\* answerPart.match(/^([A-J]+(?:\s*[,&and\s]+\s*[A-J])*)/i)[1], or with
\* [A-E] in place of [A-J]+ when many is FALSE; <<>> for no match
AnswerMatch(range, many, answerPart) ==
    IF answerPart = <<>> \/ UpperChar(answerPart[1]) \notin range THEN <<>>
    ELSE LET first == IF many THEN SkipLetters(range, answerPart, 1) ELSE 2
         IN  SubSeq(answerPart, 1, MoreLetters(range, answerPart, first) - 1)

\* Array.from(new Set(a))
RECURSIVE Unique(_)
Unique(a) ==
    IF a = <<>> THEN <<>>
    ELSE LET init == Unique(SubSeq(a, 1, Len(a) - 1))
         IN  IF a[Len(a)] \in Range(init) THEN init ELSE Append(init, a[Len(a)])

\* letters.join(','), letters being an array of one-character strings
RECURSIVE JoinLetters(_)
JoinLetters(letters) ==
    IF Len(letters) = 0 THEN <<>>
    ELSE IF Len(letters) = 1 THEN <<letters[1]>>
    ELSE <<letters[1], ",">> \o JoinLetters(Tail(letters))

\* answerRaw.match(/[A-J]/g)
KeyLetters(range, answerRaw) == SelectSeq(answerRaw, LAMBDA c : c \in range)

\* questionBlock.replace(/^[A-J]+\s*/i, '')
StripAnswerKey(questionBlock) ==
    IF questionBlock = <<>> \/ UpperChar(questionBlock[1]) \notin KeyRange
    THEN questionBlock
    ELSE SubSeq(questionBlock,
                SkipSpaces(questionBlock, SkipLetters(KeyRange, questionBlock, 1)),
                Len(questionBlock))

\* where (?:\s*,\s*[A-E])* that starts at position p ends
RECURSIVE MoreKeyLetters(_, _)
MoreKeyLetters(text, p) ==
    LET comma == SkipSpaces(text, p)
        letter == SkipSpaces(text, comma + 1)
    IN  IF /\ comma <= Len(text)
           /\ text[comma] = ","
           /\ letter <= Len(text)
           /\ UpperChar(text[letter]) \in KeyRangeBulkImport
        THEN MoreKeyLetters(text, letter + 1)
        ELSE p

\* questionBlock.replace(/^[A-E](?:\s*,\s*[A-E])*\s*/i, '')
StripAnswerKeyBulkImport(questionBlock) ==
    IF questionBlock = <<>> \/ UpperChar(questionBlock[1]) \notin KeyRangeBulkImport
    THEN questionBlock
    ELSE SubSeq(questionBlock,
                SkipSpaces(questionBlock, MoreKeyLetters(questionBlock, 2)),
                Len(questionBlock))

\* questionBlock.replace(/^Question:\s*\d*\s*/i, '')
StripQuestionPrefix(questionBlock) ==
    IF ~LiteralAt(WordQuestion, questionBlock, 1) THEN questionBlock
    ELSE SubSeq(questionBlock,
                SkipSpaces(questionBlock,
                    SkipDigits(questionBlock,
                        SkipSpaces(questionBlock, Len(WordQuestion) + 1))),
                Len(questionBlock))

\* the loop of src/unnamed/part_005 over the pieces around "Answer:", from
\* piece i on (i is 1-based); cleanup is FALSE to leave out the statement
\* under if (i > 0)
RECURSIVE QuestionBlocks(_, _, _)
QuestionBlocks(parts, i, cleanup) ==
    IF i >= Len(parts) THEN <<>>
    ELSE LET answerMatch == AnswerMatch(KeyRange, TRUE, parts[i + 1])
             answerRaw == ToUpperCase(answerMatch)
             answers == KeyLetters(KeyRange, answerRaw)
             correctAnswer == JoinLetters(Unique(answers))
             cleaned == IF i > 1 /\ cleanup
                        THEN Trim[StripAnswerKey(parts[i])]
                        ELSE parts[i]
             questionBlock == Trim[Trim[StripQuestionPrefix(cleaned)]]
             rest == QuestionBlocks(parts, i + 1, cleanup)
         IN  IF answerMatch = <<>> THEN rest
             ELSE IF Len(questionBlock) > 10
             THEN <<[questionText |-> questionBlock,
                     correctAnswer |-> correctAnswer]>> \o rest
             ELSE rest

\* text with the "Explanation:" and the "Reference:" sections removed
CleanedText(text) ==
    ReplaceSections(ReplaceSections(text, WordExplanation, {WordQuestion}, 1),
                    WordReference, {WordQuestion, WordAnswer}, 1)

\* parseQuestions as it would be without the clean-up of the previous answer
parseQuestionsKeepsAnswerKey(text) ==
    QuestionBlocks(SplitAnswers(CleanedText(text), 1), 1, FALSE)

\* parseQuestions of src/unnamed/part_005
parseQuestions(text) ==
    QuestionBlocks(SplitAnswers(CleanedText(text), 1), 1, TRUE)

\* the first position from `from` on where letter[.)] matches (flag i),
\* Len(text) + 2 when there is none
FirstMarker(text, letter, from) ==
    Least({q \in from..(Len(text) - 1) :
              UpperChar(text[q]) = letter /\ text[q + 1] \in {".", ")"}}
          \cup {Len(text) + 2})

\* Answer[s]?:\s*[A-E] matches at position p of text
AnswerKeyAt(text, p) ==
    /\ AnswerSepLen(text, p) > 0
    /\ LET r == SkipSpaces(text, p + AnswerSepLen(text, p))
       IN  r <= Len(text) /\ UpperChar(text[r]) \in KeyRangeBulkImport

\* the while loop over questionPattern.exec(text), lastIndex being s - 1.
\* The match starts at s; its lazy groups end at the first A-marker, the
\* first B-marker after it, the first C-marker and D-marker likewise, and at
\* the first "Answer:" after the D-marker that a letter follows
RECURSIVE ExecQuestions(_, _)
ExecQuestions(text, s) ==
    LET pA == FirstMarker(text, "A", s)
        pB == FirstMarker(text, "B", pA + 2)
        pC == FirstMarker(text, "C", pB + 2)
        pD == FirstMarker(text, "D", pC + 2)
        pAnswer == Least({q \in (pD + 2)..Len(text) : AnswerKeyAt(text, q)}
                         \cup {Len(text) + 2})
        key == SkipSpaces(text, pAnswer + AnswerSepLen(text, pAnswer))
        end == MoreLetters(KeyRangeBulkImport, text, key + 1)
        questionText == Trim[SubSeq(text, s, pAnswer - 1)]
        answerRaw == ToUpperCase(SubSeq(text, key, end - 1))
        correctAnswer == JoinLetters(KeyLetters(KeyRangeBulkImport, answerRaw))
    IN  IF pAnswer > Len(text) THEN <<>>
        ELSE IF questionText # <<>>
        THEN <<[questionText |-> questionText,
                correctAnswer |-> correctAnswer]>> \o ExecQuestions(text, end)
        ELSE ExecQuestions(text, end)

\* the alternative loop of src/src/components/BulkImport.tsx over the pieces
\* around "Answer:", from piece i on (i is 1-based)
RECURSIVE QuestionBlocksBulkImport(_, _)
QuestionBlocksBulkImport(parts, i) ==
    IF i >= Len(parts) THEN <<>>
    ELSE LET answerMatch == AnswerMatch(KeyRangeBulkImport, FALSE, parts[i + 1])
             answerRaw == ToUpperCase(answerMatch)
             correctAnswer == JoinLetters(KeyLetters(KeyRangeBulkImport, answerRaw))
             cleaned == IF i > 1
                        THEN Trim[StripAnswerKeyBulkImport(parts[i])]
                        ELSE parts[i]
             questionBlock == Trim[cleaned]
             rest == QuestionBlocksBulkImport(parts, i + 1)
         IN  IF answerMatch = <<>> THEN rest
             ELSE IF Len(questionBlock) > 10
             THEN <<[questionText |-> questionBlock,
                     correctAnswer |-> correctAnswer]>> \o rest
             ELSE rest

\* parseQuestions of src/src/components/BulkImport.tsx
parseQuestionsBulkImport(text) ==
    LET questions == ExecQuestions(text, 1)
    IN  IF questions # <<>> THEN questions
        ELSE QuestionBlocksBulkImport(SplitAnswers(text, 1), 1)

----------------------------------------------------------------------------
(* The study set *)

LetterA == <<"A">>
LetterB == <<"B">>
LetterC == <<"C">>

\* Three kinds of question, each with the lettered choices A and B in its
\* questionText: one right letter, two right letters, and a right letter
\* that was typed in lower case.
QuestionBank ==
    <<[letters |-> {LetterA, LetterB}, correctAnswer |-> <<"B">>],
      [letters |-> {LetterA, LetterB}, correctAnswer |-> <<"A", ",", "B">>],
      [letters |-> {LetterA, LetterB}, correctAnswer |-> <<"a">>]>>

\* the study set of NumQuestions questions
AllQuestions ==
    [i \in 1..NumQuestions |-> QuestionBank[((i - 1) % Len(QuestionBank)) + 1]]

\* studySet.questions[i], i in 0..studySet.questions.length-1
Questions(i) == studySet[(i % Len(studySet)) + 1]

QuestionIndices == 0..(Len(studySet) - 1)

\* checkAnswer(answers, studySet.questions[i].correctAnswer)
IsCorrectAnswer(i, answers) == checkAnswer(answers, Questions(i).correctAnswer)

\* the letters of correctAnswersList of studySet.questions[i]
RightLettersOf(i) == Range(getCorrectAnswers(Questions(i).correctAnswer))

----------------------------------------------------------------------------
(* The LearnMode component *)

\* The state a render sees: what the closures of that render capture.
CurrentRender ==
    [currentIndex |-> currentIndex, selectedAnswers |-> selectedAnswers,
     showAnswer |-> showAnswer, isCorrect |-> isCorrect,
     wrongIndices |-> wrongIndices, isReviewMode |-> isReviewMode,
     reviewIndex |-> reviewIndex, masteredCount |-> masteredCount,
     isComplete |-> isComplete]

\* stands for the JavaScript value undefined where an index is expected
Undefined == -1

\* useState initial values
InitialState ==
    [currentIndex |-> 0, selectedAnswers |-> <<>>, showAnswer |-> FALSE,
     isCorrect |-> "null", wrongIndices |-> <<>>, isReviewMode |-> FALSE,
     reviewIndex |-> 0, masteredCount |-> 0, isComplete |-> FALSE]

\* getCurrentQuestion: the index of the question it returns, or Undefined
\* when the array access is out of range
CurrentQuestionIndex(st) ==
    IF st.isReviewMode
    THEN IF st.reviewIndex \in 0..(Len(st.wrongIndices) - 1)
         THEN At(st.wrongIndices, st.reviewIndex)
         ELSE Undefined
    ELSE st.currentIndex

\* The render body reads currentQuestion.questionText before it looks at
\* isComplete: it throws a TypeError when getCurrentQuestion() is undefined.
RenderThrows(st) == CurrentQuestionIndex(st) \notin QuestionIndices

\* prevWrong.filter((_, i) => i !== reviewIndex)
FilterOutIndex[a \in Seq(Nat), i \in Nat] ==
    IF a = <<>> THEN <<>>
    ELSE IF i = 0 THEN Tail(a)
    ELSE <<Head(a)>> \o FilterOutIndex[Tail(a), i - 1]

\* advanceToNext as it would be with `prev + 1` in place of the wrap
\* `prev < wrongIndices.length - 1 ? prev + 1 : 0`
advanceToNextWithoutWrap(st, cl, wasCorrect) ==
    LET cleared == [st EXCEPT !.selectedAnswers = <<>>, !.showAnswer = FALSE,
                              !.isCorrect = "null"]
    IN  IF cl.isReviewMode
        THEN IF wasCorrect
             THEN LET newWrongIndices == FilterOutIndex[st.wrongIndices, cl.reviewIndex]
                  IN  IF Len(newWrongIndices) = 0
                      THEN [cleared EXCEPT !.wrongIndices = newWrongIndices,
                                           !.isComplete = TRUE]
                      ELSE IF cl.reviewIndex >= Len(newWrongIndices)
                      THEN [cleared EXCEPT !.wrongIndices = newWrongIndices,
                                           !.reviewIndex = 0]
                      ELSE [cleared EXCEPT !.wrongIndices = newWrongIndices]
             ELSE [cleared EXCEPT !.reviewIndex = st.reviewIndex + 1]
        ELSE IF st.currentIndex < Len(studySet) - 1
             THEN [cleared EXCEPT !.currentIndex = st.currentIndex + 1]
             ELSE IF Len(cl.wrongIndices) > 0
                  THEN [cleared EXCEPT !.isReviewMode = TRUE, !.reviewIndex = 0]
                  ELSE [cleared EXCEPT !.isComplete = TRUE]

\* advanceToNext(wasCorrect) of the render `cl`, applied to the state `st`
\* that the queued updater functions see
advanceToNext(st, cl, wasCorrect) ==
    LET cleared == [st EXCEPT !.selectedAnswers = <<>>, !.showAnswer = FALSE,
                              !.isCorrect = "null"]
    IN  IF cl.isReviewMode
        THEN IF wasCorrect
             THEN LET newWrongIndices == FilterOutIndex[st.wrongIndices, cl.reviewIndex]
                  IN  IF Len(newWrongIndices) = 0
                      THEN [cleared EXCEPT !.wrongIndices = newWrongIndices,
                                           !.isComplete = TRUE]
                      ELSE IF cl.reviewIndex >= Len(newWrongIndices)
                      THEN [cleared EXCEPT !.wrongIndices = newWrongIndices,
                                           !.reviewIndex = 0]
                      ELSE [cleared EXCEPT !.wrongIndices = newWrongIndices]
             ELSE [cleared EXCEPT !.reviewIndex =
                       IF st.reviewIndex < Len(cl.wrongIndices) - 1
                       THEN st.reviewIndex + 1 ELSE 0]
        ELSE IF st.currentIndex < Len(studySet) - 1
             THEN [cleared EXCEPT !.currentIndex = st.currentIndex + 1]
             ELSE IF Len(cl.wrongIndices) > 0
                  THEN [cleared EXCEPT !.isReviewMode = TRUE, !.reviewIndex = 0]
                  ELSE [cleared EXCEPT !.isComplete = TRUE]

\* TRUE when advanceToNext(wasCorrect) calls localStorage.removeItem: on the
\* branches that set isComplete
advanceRemovesItem(st, cl, wasCorrect) ==
    IF cl.isReviewMode
    THEN wasCorrect /\ Len(FilterOutIndex[st.wrongIndices, cl.reviewIndex]) = 0
    ELSE ~(st.currentIndex < Len(studySet) - 1) /\ ~(Len(cl.wrongIndices) > 0)

\* checkAndShowAnswer as it would be without `!isReviewMode`: an incorrect
\* answer queues currentIndex in the Review phase too
checkAndShowAnswerQueuesInReview(st, answers) ==
    LET correct == IsCorrectAnswer(CurrentQuestionIndex(st), answers)
        shown == [st EXCEPT !.isCorrect = IF correct THEN "true" ELSE "false",
                            !.showAnswer = TRUE]
    IN  IF correct
        THEN [shown EXCEPT !.masteredCount = st.masteredCount + 1]
        ELSE IF st.currentIndex \notin Range(st.wrongIndices)
        THEN [shown EXCEPT !.wrongIndices = Append(st.wrongIndices, st.currentIndex)]
        ELSE shown

\* checkAndShowAnswer as it would be without `!wrongIndices.includes(qIndex)`:
\* an incorrect answer in the Primary phase always appends
checkAndShowAnswerAlwaysAppends(st, answers) ==
    LET correct == IsCorrectAnswer(CurrentQuestionIndex(st), answers)
        shown == [st EXCEPT !.isCorrect = IF correct THEN "true" ELSE "false",
                            !.showAnswer = TRUE]
    IN  IF correct
        THEN [shown EXCEPT !.masteredCount = st.masteredCount + 1]
        ELSE IF ~st.isReviewMode
        THEN [shown EXCEPT !.wrongIndices = Append(st.wrongIndices, st.currentIndex)]
        ELSE shown

\* checkAndShowAnswer(answers): the state it leaves (the timer it may
\* schedule is in TimersAfterCheck)
checkAndShowAnswer(st, answers) ==
    LET correct == IsCorrectAnswer(CurrentQuestionIndex(st), answers)
        shown == [st EXCEPT !.isCorrect = IF correct THEN "true" ELSE "false",
                            !.showAnswer = TRUE]
    IN  IF correct
        THEN [shown EXCEPT !.masteredCount = st.masteredCount + 1]
        ELSE IF ~st.isReviewMode /\ st.currentIndex \notin Range(st.wrongIndices)
        THEN [shown EXCEPT !.wrongIndices = Append(st.wrongIndices, st.currentIndex)]
        ELSE shown

\* what advanceToNext reads from the render it closes over (the other
\* values it uses come from the updater functions' arguments)
Closure(st) ==
    [isReviewMode |-> st.isReviewMode, reviewIndex |-> st.reviewIndex,
     wrongIndices |-> st.wrongIndices]

\* setTimeout(() => advanceToNext(true), 400) of a correct answer
TimersAfterCheck(st, answers) ==
    IF IsCorrectAnswer(CurrentQuestionIndex(st), answers)
    THEN Append(timers, Closure(st))
    ELSE timers

\* the history of correct answers after checkAndShowAnswer(answers)
AnsweredAfterCheck(st, answers) ==
    IF IsCorrectAnswer(CurrentQuestionIndex(st), answers)
    THEN answeredCorrectly \cup {CurrentQuestionIndex(st)}
    ELSE answeredCorrectly

\* the SavedLearnProgress record of a render (its timestamp is the choice
\* isRecent of Mount)
Progress(st) ==
    [currentIndex |-> st.currentIndex, wrongIndices |-> st.wrongIndices,
     isReviewMode |-> st.isReviewMode, reviewIndex |-> st.reviewIndex,
     masteredCount |-> st.masteredCount]

\* the save effect after the render of `st` with showResumePrompt false:
\* the item of localStorage it leaves, `item` being the one before
SaveEffect(st, item) ==
    IF ~st.isComplete /\ (st.currentIndex > 0 \/ st.masteredCount > 0)
    THEN {Progress(st)}
    ELSE item

\* React applies the queued updates and renders again; `removed` tells that
\* the handler called localStorage.removeItem. A render that throws is not
\* committed and runs no effect: the component tree is unmounted with the
\* last committed state, and it takes no further event.
Commit(new, removed) ==
    IF RenderThrows(new)
    THEN /\ renderError' = TRUE
         /\ storage' = IF removed THEN {} ELSE storage
         /\ UNCHANGED <<currentIndex, selectedAnswers, showAnswer, isCorrect,
                        wrongIndices, isReviewMode, reviewIndex, masteredCount,
                        isComplete>>
    ELSE /\ renderError' = FALSE
         /\ storage' = SaveEffect(new, IF removed THEN {} ELSE storage)
         /\ currentIndex' = new.currentIndex
         /\ selectedAnswers' = new.selectedAnswers
         /\ showAnswer' = new.showAnswer
         /\ isCorrect' = new.isCorrect
         /\ wrongIndices' = new.wrongIndices
         /\ isReviewMode' = new.isReviewMode
         /\ reviewIndex' = new.reviewIndex
         /\ masteredCount' = new.masteredCount
         /\ isComplete' = new.isComplete

\* The question card is on screen: mounted, and neither the resume prompt
\* nor the Complete screen.
CardShown == mounted /\ ~renderError /\ ~showResumePrompt /\ ~isComplete

\* toggleAnswer as it would be without the branch for isMultipleAnswer:
\* every click is graded at once
ToggleAnswerGradesAtOnce(letter) ==
    /\ CardShown
    /\ ~showAnswer
    /\ letter \in Questions(CurrentQuestionIndex(CurrentRender)).letters
    /\ LET picked == [CurrentRender EXCEPT !.selectedAnswers = <<letter>>]
       IN  /\ Len(TimersAfterCheck(CurrentRender, <<letter>>)) <= MaxTimers
           /\ Commit(checkAndShowAnswer(picked, <<letter>>), FALSE)
           /\ timers' = TimersAfterCheck(CurrentRender, <<letter>>)
           /\ answeredCorrectly' = AnsweredAfterCheck(CurrentRender, <<letter>>)
    /\ UNCHANGED <<sessionVars, nonLearnVars>>

\* toggleAnswer(letter): the click on a choice button
ToggleAnswer(letter) ==
    /\ CardShown
    /\ ~showAnswer
    /\ letter \in Questions(CurrentQuestionIndex(CurrentRender)).letters
    /\ IF hasMultipleAnswers(Questions(CurrentQuestionIndex(CurrentRender)).correctAnswer)
       THEN /\ Commit([CurrentRender EXCEPT !.selectedAnswers =
                       IF letter \in Range(selectedAnswers)
                       THEN SelectSeq(selectedAnswers, LAMBDA l : l # letter)
                       ELSE Append(selectedAnswers, letter)], FALSE)
            /\ UNCHANGED <<timers, answeredCorrectly>>
       ELSE LET picked == [CurrentRender EXCEPT !.selectedAnswers = <<letter>>]
            IN  /\ Len(TimersAfterCheck(CurrentRender, <<letter>>)) <= MaxTimers
                /\ Commit(checkAndShowAnswer(picked, <<letter>>), FALSE)
                /\ timers' = TimersAfterCheck(CurrentRender, <<letter>>)
                /\ answeredCorrectly' = AnsweredAfterCheck(CurrentRender, <<letter>>)
    /\ UNCHANGED <<sessionVars, nonLearnVars>>

\* submitMultipleAnswers: the Check Answer button
SubmitMultipleAnswers ==
    /\ CardShown
    /\ hasMultipleAnswers(Questions(CurrentQuestionIndex(CurrentRender)).correctAnswer)
    /\ ~showAnswer
    /\ Len(selectedAnswers) > 0
    /\ Len(TimersAfterCheck(CurrentRender, selectedAnswers)) <= MaxTimers
    /\ Commit(checkAndShowAnswer(CurrentRender, selectedAnswers), FALSE)
    /\ timers' = TimersAfterCheck(CurrentRender, selectedAnswers)
    /\ answeredCorrectly' = AnsweredAfterCheck(CurrentRender, selectedAnswers)
    /\ UNCHANGED <<sessionVars, nonLearnVars>>

\* nextQuestion: the Continue / Got it button
NextQuestion ==
    /\ CardShown
    /\ showAnswer
    /\ Commit(advanceToNext(CurrentRender, Closure(CurrentRender), FALSE),
              advanceRemovesItem(CurrentRender, Closure(CurrentRender), FALSE))
    /\ UNCHANGED <<timers, answeredCorrectly, sessionVars, nonLearnVars>>

\* The oldest pending timer fires: advanceToNext(true) of the render that
\* scheduled it. State updates of an unmounted component are dropped.
TimerFires ==
    /\ timers # <<>>
    /\ timers' = Tail(timers)
    /\ IF renderError \/ ~mounted
       THEN UNCHANGED <<drillVars, renderError, storage>>
       ELSE Commit(advanceToNext(CurrentRender, Head(timers), TRUE),
                   advanceRemovesItem(CurrentRender, Head(timers), TRUE))
    /\ UNCHANGED <<answeredCorrectly, sessionVars, nonLearnVars>>

\* restart as it would be without setMasteredCount(0)
RestartKeepsMasteredCount ==
    /\ mounted /\ ~renderError /\ ~showResumePrompt
    /\ isComplete
    /\ Commit([InitialState EXCEPT !.masteredCount = masteredCount], TRUE)
    /\ answeredCorrectly' = {}
    /\ UNCHANGED <<timers, sessionVars, nonLearnVars>>

\* restart: the Learn Again button of the Complete screen
Restart ==
    /\ mounted /\ ~renderError /\ ~showResumePrompt
    /\ isComplete
    /\ Commit(InitialState, TRUE)
    /\ answeredCorrectly' = {}
    /\ UNCHANGED <<timers, sessionVars, nonLearnVars>>

\* LearnMode as first mounted, nothing in localStorage
LearnMounted ==
    /\ currentIndex = InitialState.currentIndex
    /\ selectedAnswers = InitialState.selectedAnswers
    /\ showAnswer = InitialState.showAnswer
    /\ isCorrect = InitialState.isCorrect
    /\ wrongIndices = InitialState.wrongIndices
    /\ isReviewMode = InitialState.isReviewMode
    /\ reviewIndex = InitialState.reviewIndex
    /\ masteredCount = InitialState.masteredCount
    /\ isComplete = InitialState.isComplete
    /\ showResumePrompt = FALSE
    /\ savedProgress = {}
    /\ storage = {}
    /\ mounted = TRUE
    /\ mounts = 1
    /\ timers = <<>>
    /\ renderError = FALSE
    /\ answeredCorrectly = {}

\* LearnMode as first mounted on a study set of questions with choices
LearnInit ==
    /\ studySet = AllQuestions
    /\ LearnMounted

\* the variables of the grader while another component is specified
GradeIdle ==
    /\ gSelected = <<>>
    /\ gCorrect = <<>>
    /\ gResult = FALSE

\* the variables of the parser while another component is specified
ParseIdle ==
    /\ pText = <<>>
    /\ pResult = [questionPart |-> <<>>, choices |-> <<>>]
    /\ pSetView = [questionPart |-> <<>>, choices |-> <<>>]

\* BulkImport as first mounted
ImportFresh ==
    /\ mode = "text"
    /\ bulkText = <<>>
    /\ parsedQuestions = <<>>
    /\ isParsed = FALSE
    /\ error = ""
    /\ isLoading = FALSE
    /\ pdfUpload = {}
    /\ pasted = 0

\* the variables of the bulk importer while another component is specified
ImportIdle ==
    /\ build = "part_005"
    /\ ImportFresh

\* the server as started on an empty database
ServerIdle ==
    /\ studySets = <<>>
    /\ clock = 0
    /\ created = 0
    /\ request = [method |-> "none", userId |-> "none", id |-> 0]
    /\ response = [status |-> 0, body |-> <<>>]
    /\ pendingPut = {}

\* the variables of the generated documents while another component is
\* specified
ExtractIdle ==
    /\ dBlocks = <<>>
    /\ dText = <<>>
    /\ dRecords = <<>>
    /\ dRecordsBulkImport = <<>>

Init ==
    /\ LearnInit
    /\ GradeIdle
    /\ ParseIdle
    /\ ImportIdle
    /\ ServerIdle
    /\ ExtractIdle

Next ==
    \/ \E letter \in {LetterA, LetterB} : ToggleAnswer(letter)
    \/ SubmitMultipleAnswers
    \/ NextQuestion
    \/ TimerFires
    \/ Restart

Spec == Init /\ [][Next]_vars

----------------------------------------------------------------------------
(* Leaving the session and coming back to it *)

\* onBack (Exit, Done): App unmounts the component. The React state of the
\* instance is discarded, and its pending timers address no mounted
\* component any more; localStorage stays.
Exit ==
    /\ mounted /\ ~renderError
    /\ mounts < MaxMounts
    /\ mounted' = FALSE
    /\ timers' = <<>>
    /\ currentIndex' = InitialState.currentIndex
    /\ selectedAnswers' = InitialState.selectedAnswers
    /\ showAnswer' = InitialState.showAnswer
    /\ isCorrect' = InitialState.isCorrect
    /\ wrongIndices' = InitialState.wrongIndices
    /\ isReviewMode' = InitialState.isReviewMode
    /\ reviewIndex' = InitialState.reviewIndex
    /\ masteredCount' = InitialState.masteredCount
    /\ isComplete' = InitialState.isComplete
    /\ showResumePrompt' = FALSE
    /\ savedProgress' = {}
    /\ answeredCorrectly' = {}
    /\ UNCHANGED <<storage, mounts, renderError, nonLearnVars>>

\* the load effect as it would be without isValid: a saved item is offered
\* whatever the number of questions of the mounted set
MountOnWithoutIsValid(questions) ==
    /\ ~mounted \/ renderError
    /\ mounts < MaxMounts
    /\ mounts' = mounts + 1
    /\ mounted' = TRUE
    /\ renderError' = FALSE
    /\ timers' = <<>>
    /\ currentIndex' = InitialState.currentIndex
    /\ selectedAnswers' = InitialState.selectedAnswers
    /\ showAnswer' = InitialState.showAnswer
    /\ isCorrect' = InitialState.isCorrect
    /\ wrongIndices' = InitialState.wrongIndices
    /\ isReviewMode' = InitialState.isReviewMode
    /\ reviewIndex' = InitialState.reviewIndex
    /\ masteredCount' = InitialState.masteredCount
    /\ isComplete' = InitialState.isComplete
    /\ \E isRecent \in BOOLEAN :
           IF /\ storage # {}
              /\ isRecent
              /\ \A progress \in storage :
                     /\ progress.currentIndex > 0 \/ progress.masteredCount > 0
           THEN /\ savedProgress' = storage
                /\ showResumePrompt' = TRUE
                /\ UNCHANGED storage
           ELSE /\ savedProgress' = {}
                /\ showResumePrompt' = FALSE
                /\ storage' = {}
    /\ answeredCorrectly' = {}

\* A new instance of LearnMode on the study set `questions`: the useState
\* initial values, then the load effect. isRecent tells whether the saved
\* item is less than 24 hours old. The item is found under the id of the
\* study set, whatever questions the set had when the item was saved.
MountOn(questions) ==
    /\ ~mounted \/ renderError
    /\ mounts < MaxMounts
    /\ mounts' = mounts + 1
    /\ mounted' = TRUE
    /\ renderError' = FALSE
    /\ timers' = <<>>
    /\ currentIndex' = InitialState.currentIndex
    /\ selectedAnswers' = InitialState.selectedAnswers
    /\ showAnswer' = InitialState.showAnswer
    /\ isCorrect' = InitialState.isCorrect
    /\ wrongIndices' = InitialState.wrongIndices
    /\ isReviewMode' = InitialState.isReviewMode
    /\ reviewIndex' = InitialState.reviewIndex
    /\ masteredCount' = InitialState.masteredCount
    /\ isComplete' = InitialState.isComplete
    /\ \E isRecent \in BOOLEAN :
           IF /\ storage # {}
              /\ isRecent
              /\ \A progress \in storage :
                     /\ progress.currentIndex < Len(questions)
                     /\ progress.currentIndex > 0 \/ progress.masteredCount > 0
           THEN /\ savedProgress' = storage
                /\ showResumePrompt' = TRUE
                /\ UNCHANGED storage
           ELSE /\ savedProgress' = {}
                /\ showResumePrompt' = FALSE
                /\ storage' = {}
    /\ answeredCorrectly' = {}

\* App shows LearnMode again on the same study set (after Exit, or after a
\* reload of the page that a render error left blank)
Mount ==
    /\ MountOn(studySet)
    /\ UNCHANGED nonLearnVars

\* the state resumeProgress sets from the saved record
Resumed(st, progress) ==
    [st EXCEPT !.currentIndex = progress.currentIndex,
               !.wrongIndices = progress.wrongIndices,
               !.isReviewMode = progress.isReviewMode,
               !.reviewIndex = progress.reviewIndex,
               !.masteredCount = progress.masteredCount]

\* resumeProgress: the Continue button of the resume prompt
ResumeProgress ==
    /\ mounted /\ ~renderError
    /\ showResumePrompt /\ savedProgress # {}
    /\ showResumePrompt' = FALSE
    /\ \E progress \in savedProgress : Commit(Resumed(CurrentRender, progress), FALSE)
    /\ UNCHANGED <<savedProgress, mounted, mounts, timers, answeredCorrectly, nonLearnVars>>

\* startFresh: the Start Over button of the resume prompt
StartFresh ==
    /\ mounted /\ ~renderError
    /\ showResumePrompt /\ savedProgress # {}
    /\ savedProgress' = {}
    /\ showResumePrompt' = FALSE
    /\ Commit(CurrentRender, TRUE)
    /\ UNCHANGED <<mounted, mounts, timers, answeredCorrectly, nonLearnVars>>

NextResume ==
    \/ Next
    \/ Exit
    \/ Mount
    \/ ResumeProgress
    \/ StartFresh

SpecResume == Init /\ [][NextResume]_vars

----------------------------------------------------------------------------
(* A session in which the user keeps answering *)

\* an answer is graded correct
AnswerCorrectly ==
    /\ \/ \E letter \in {LetterA, LetterB} : ToggleAnswer(letter)
       \/ SubmitMultipleAnswers
    /\ isCorrect' = "true"

\* on a question with several right letters, the user selects a right
\* letter or deselects a wrong one
ToggleTowardsCorrect ==
    \E letter \in {LetterA, LetterB} :
        /\ ToggleAnswer(letter)
        /\ Len(selectedAnswers') > Len(selectedAnswers)
               <=> letter \in RightLettersOf(CurrentQuestionIndex(CurrentRender))

\* on a question with several right letters, the user's click makes the
\* selection exactly the right letters
CompleteSelection ==
    \E letter \in {LetterA, LetterB} :
        /\ ToggleAnswer(letter)
        /\ ~showAnswer'
        /\ Range(selectedAnswers') = RightLettersOf(CurrentQuestionIndex(CurrentRender))

\* Timers fire (the event loop), the user presses Continue / Got it when it
\* is shown, and keeps answering until the answer is right.
SpecLive ==
    /\ Spec
    /\ WF_vars(TimerFires)
    /\ WF_vars(NextQuestion)
    /\ SF_vars(ToggleTowardsCorrect)
    /\ SF_vars(CompleteSelection)
    /\ SF_vars(AnswerCorrectly)

----------------------------------------------------------------------------
(* The grader on generated inputs *)

\* tokens.join(',')
JoinComma[tokens \in StringArrays] ==
    IF Len(tokens) = 0 THEN <<>>
    ELSE IF Len(tokens) = 1 THEN tokens[1]
    ELSE tokens[1] \o <<",">> \o JoinComma[Tail(tokens)]

\* a[i] and a[i+1] exchanged (i is 1-based)
SwapAt(a, i) ==
    [k \in 1..Len(a) |-> IF k = i THEN a[i + 1] ELSE IF k = i + 1 THEN a[i] ELSE a[k]]

\* the letters of the choice buttons that can be selected
ChoiceLetters == <<LetterA, LetterC>>

\* the selections made by clicking choices in alphabetical order
AscendingSelections ==
    { SelectSeq(ChoiceLetters, LAMBDA l : l \in S) : S \in SUBSET Range(ChoiceLetters) }

\* the tokens a generated correctAnswer is written with
BaseTokens == {<<"A">>, <<"C">>, <<>>}

\* the generated correctAnswer strings: 1..MaxTokens tokens joined by commas
GeneratedCorrectAnswers ==
    { JoinComma[ts] : ts \in UNION {[1..n -> BaseTokens] : n \in 1..MaxTokens} }

\* the same token, written differently: in the other case, or with a blank
\* before and after it
Restyled(t) ==
    {ToLowerCase(t), ToUpperCase(t)}
        \cup (IF " " \in Range(t) THEN {} ELSE {<<" ">> \o t \o <<" ">>})

InitGrade ==
    /\ LearnInit
    /\ ParseIdle
    /\ ImportIdle
    /\ ServerIdle
    /\ ExtractIdle
    /\ gSelected \in AscendingSelections
    /\ gCorrect \in GeneratedCorrectAnswers
    /\ gResult = checkAnswer(gSelected, gCorrect)

\* the same letters selected in another order
SwapSelected(i) ==
    /\ i \in 1..(Len(gSelected) - 1)
    /\ gSelected' = SwapAt(gSelected, i)
    /\ gResult' = checkAnswer(gSelected', gCorrect)
    /\ UNCHANGED <<gCorrect, nonGradeVars>>

\* the same tokens of correctAnswer in another order
SwapTokens(i) ==
    /\ i \in 1..(Len(SplitComma[gCorrect]) - 1)
    /\ gCorrect' = JoinComma[SwapAt(SplitComma[gCorrect], i)]
    /\ gResult' = checkAnswer(gSelected, gCorrect')
    /\ UNCHANGED <<gSelected, nonGradeVars>>

\* one token of correctAnswer in another case or with a blank around it
RestyleToken(i) ==
    /\ i \in 1..Len(SplitComma[gCorrect])
    /\ \E t \in Restyled(SplitComma[gCorrect][i]) :
           gCorrect' = JoinComma[[SplitComma[gCorrect] EXCEPT ![i] = t]]
    /\ gResult' = checkAnswer(gSelected, gCorrect')
    /\ UNCHANGED <<gSelected, nonGradeVars>>

NextGrade ==
    \/ \E i \in 1..MaxTokens : SwapSelected(i)
    \/ \E i \in 1..MaxTokens : SwapTokens(i)
    \/ \E i \in 1..MaxTokens : RestyleToken(i)

SpecGrade == InitGrade /\ [][NextGrade]_vars

----------------------------------------------------------------------------
(* The choice parser on generated inputs *)

\* what a generated questionText is written with: choice markers followed by
\* a blank, a marker that nothing follows, a character of text, a blank and a
\* line break
TextPieces ==
    {<<"A", ".", " ">>, <<"B", ".", " ">>, <<"b", ")", " ">>, <<"F", ".", " ">>,
     <<"A", ".">>, <<"x">>, <<" ">>, <<"\n">>}

InitParse ==
    /\ LearnInit
    /\ GradeIdle
    /\ ImportIdle
    /\ ServerIdle
    /\ ExtractIdle
    /\ pText = <<>>
    /\ pResult = parseChoices(pText)
    /\ pSetView = parseChoicesSetView(pText)

\* one more piece of text, and the text parsed again
AppendPiece(piece) ==
    /\ Len(pText) + Len(piece) <= MaxTextLen
    /\ pText' = pText \o piece
    /\ pResult' = parseChoices(pText')
    /\ pSetView' = parseChoicesSetView(pText')
    /\ UNCHANGED nonParseVars

NextParse == \E piece \in TextPieces : AppendPiece(piece)

SpecParse == InitParse /\ [][NextParse]_vars

\* the letters of a choice list, in its order
LettersOf(choices) == [k \in 1..Len(choices) |-> choices[k].letter]

\* a list of letters is strictly ascending: sorted, and no letter twice
StrictlyAscending(letters) ==
    \A k \in 1..(Len(letters) - 1) : StrLess[letters[k], letters[k + 1]]

----------------------------------------------------------------------------
(* The bulk importer *)

\* the example of the import screen, in four pieces
SampleQuestion1 ==
    <<"W", "h", "a", "t", " ", "i", "s", " ", "2", " ", "+", " ", "2", "?",
      "\n", "A", ".", " ", "3", "\n", "B", ".", " ", "4", "\n", "C", ".",
      " ", "5", "\n", "D", ".", " ", "6", "\n">>
SampleAnswer1 ==
    <<"A", "n", "s", "w", "e", "r", ":", " ", "B", "\n", "\n">>
SampleQuestion2 ==
    <<"W", "h", "i", "c", "h", " ", "a", "r", "e", " ", "p", "r", "i", "m",
      "a", "r", "y", " ", "c", "o", "l", "o", "r", "s", "?", " ", "(", "S",
      "e", "l", "e", "c", "t", " ", "a", "l", "l", " ", "t", "h", "a", "t",
      " ", "a", "p", "p", "l", "y", ")", "\n", "A", ".", " ", "R", "e",
      "d", "\n", "B", ".", " ", "G", "r", "e", "e", "n", "\n", "C", ".",
      " ", "B", "l", "u", "e", "\n", "D", ".", " ", "Y", "e", "l", "l",
      "o", "w", "\n">>
SampleAnswer2 ==
    <<"A", "n", "s", "w", "e", "r", ":", " ", "A", ",", " ", "C">>
CanonicalSample == SampleQuestion1 \o SampleAnswer1 \o SampleQuestion2 \o SampleAnswer2

\* a document with an explanation and no answer
ExplanationBlock ==
    <<"E", "x", "p", "l", "a", "n", "a", "t", "i", "o", "n", ":", " ", "b",
      "l", "a", "h", " ", "b", "l", "a", "h">>

\* what the user writes the text from: the two questions of the example
\* with their answers, and the explanation
PastedPieces ==
    {SampleQuestion1 \o SampleAnswer1, SampleQuestion2 \o SampleAnswer2,
     ExplanationBlock}

\* the messages of setError
NoError == ""
PleasePaste == "Please paste your questions"
CouldNotParse == "Could not parse any questions. Make sure your format includes questions with A, B, C, D choices followed by \"Answer: X\""
PleaseUploadPdf == "Please upload a PDF file"
CouldNotFind == "Could not automatically find questions in the PDF. The text has been extracted - you can review and edit it below."
FailedToRead == "Failed to read PDF. Please try a different file or paste the text manually."

\* items.join(' ')
RECURSIVE JoinSpace(_)
JoinSpace(items) ==
    IF Len(items) = 0 THEN <<>>
    ELSE IF Len(items) = 1 THEN items[1]
    ELSE items[1] \o <<" ">> \o JoinSpace(Tail(items))

\* fullText of handlePdfUpload: the items of each page joined by a blank,
\* each page followed by a line feed
RECURSIVE ExtractText(_)
ExtractText(pages) ==
    IF pages = <<>> THEN <<>>
    ELSE JoinSpace(Head(pages)) \o <<"\n">> \o ExtractText(Tail(pages))

\* the files offered to the file input: one that is not a PDF, a PDF that
\* pdf.js fails to read, a PDF of one page with the explanation only and a
\* PDF of two pages with the example, one text item for each piece
PdfFiles ==
    {[type |-> "text/plain", readable |-> TRUE, pages |-> <<>>],
     [type |-> "application/pdf", readable |-> FALSE, pages |-> <<>>],
     [type |-> "application/pdf", readable |-> TRUE,
      pages |-> <<<<ExplanationBlock>>>>],
     [type |-> "application/pdf", readable |-> TRUE,
      pages |-> <<<<SampleQuestion1, SampleAnswer1>>,
                  <<SampleQuestion2, SampleAnswer2>>>>]}

\* parseQuestions of the copy that is running
ParseQuestionsOf(b, text) ==
    IF b = "part_005" THEN parseQuestions(text) ELSE parseQuestionsBulkImport(text)

\* onChange of the textarea: the user writes one more piece
SetBulkText(piece) ==
    /\ ~isParsed
    /\ mode = "text"
    /\ pasted < MaxPasted
    /\ bulkText' = bulkText \o piece
    /\ pasted' = pasted + 1
    /\ UNCHANGED <<build, mode, parsedQuestions, isParsed, error, isLoading,
                   pdfUpload, nonImportVars>>

\* the tabs "Paste Text" and "Upload PDF"
SetMode(m) ==
    /\ ~isParsed
    /\ mode # m
    /\ mode' = m
    /\ UNCHANGED <<build, bulkText, parsedQuestions, isParsed, error, isLoading,
                   pdfUpload, pasted, nonImportVars>>

\* handleParseText as it would be without the return that follows the
\* message for no question
HandleParseTextWithoutReturn ==
    /\ ~isParsed
    /\ mode = "text"
    /\ IF Trim[bulkText] = <<>>
       THEN /\ error' = PleasePaste
            /\ UNCHANGED <<parsedQuestions, isParsed>>
       ELSE /\ parsedQuestions' = ParseQuestionsOf(build, bulkText)
            /\ isParsed' = TRUE
            /\ error' = NoError
    /\ UNCHANGED <<build, mode, bulkText, isLoading, pdfUpload, pasted,
                   nonImportVars>>

\* the button "Parse Questions"
HandleParseText ==
    /\ ~isParsed
    /\ mode = "text"
    /\ IF Trim[bulkText] = <<>>
       THEN /\ error' = PleasePaste
            /\ UNCHANGED <<parsedQuestions, isParsed>>
       ELSE LET questions == ParseQuestionsOf(build, bulkText)
            IN  IF Len(questions) = 0
                THEN /\ error' = CouldNotParse
                     /\ UNCHANGED <<parsedQuestions, isParsed>>
                ELSE /\ parsedQuestions' = questions
                     /\ isParsed' = TRUE
                     /\ error' = NoError
    /\ UNCHANGED <<build, mode, bulkText, isLoading, pdfUpload, pasted,
                   nonImportVars>>

\* onChange of the file input, up to the first await; one file is read at
\* a time
HandlePdfUpload(file) ==
    /\ ~isParsed
    /\ mode = "pdf"
    /\ pdfUpload = {}
    /\ IF file.type # "application/pdf"
       THEN /\ error' = PleaseUploadPdf
            /\ UNCHANGED <<isLoading, pdfUpload>>
       ELSE /\ isLoading' = TRUE
            /\ error' = NoError
            /\ pdfUpload' = {file}
    /\ UNCHANGED <<build, mode, bulkText, parsedQuestions, isParsed, pasted,
                   nonImportVars>>

\* handlePdfUpload from the first await on: the text is extracted and
\* parsed, or reading fails and the catch block runs
PdfExtracted ==
    \E file \in pdfUpload :
        /\ IF ~file.readable
           THEN /\ error' = FailedToRead
                /\ UNCHANGED <<mode, bulkText, parsedQuestions, isParsed, pasted>>
           ELSE LET fullText == ExtractText(file.pages)
                    questions == ParseQuestionsOf(build, fullText)
                IN  /\ bulkText' = fullText
                    /\ pasted' = 1
                    /\ IF Len(questions) > 0
                       THEN /\ parsedQuestions' = questions
                            /\ isParsed' = TRUE
                            /\ UNCHANGED <<error, mode>>
                       ELSE /\ error' = CouldNotFind
                            /\ mode' = "text"
                            /\ UNCHANGED <<parsedQuestions, isParsed>>
        /\ isLoading' = FALSE
        /\ pdfUpload' = {}
        /\ UNCHANGED <<build, nonImportVars>>

\* the button "Remove" of question index (0-based) of the preview
RemoveQuestion(index) ==
    /\ isParsed
    /\ index < Len(parsedQuestions)
    /\ parsedQuestions' =
           [k \in 1..(Len(parsedQuestions) - 1) |->
               IF k <= index THEN parsedQuestions[k] ELSE parsedQuestions[k + 1]]
    /\ UNCHANGED <<build, mode, bulkText, isParsed, error, isLoading, pdfUpload,
                   pasted, nonImportVars>>

\* the button "Re-import"
ResetParse ==
    /\ isParsed
    /\ isParsed' = FALSE
    /\ parsedQuestions' = <<>>
    /\ UNCHANGED <<build, mode, bulkText, error, isLoading, pdfUpload, pasted,
                   nonImportVars>>

InitImport ==
    /\ LearnInit
    /\ GradeIdle
    /\ ParseIdle
    /\ ServerIdle
    /\ ExtractIdle
    /\ build \in {"part_005", "BulkImport.tsx"}
    /\ ImportFresh

NextImport ==
    \/ \E piece \in PastedPieces : SetBulkText(piece)
    \/ \E m \in {"text", "pdf"} : SetMode(m)
    \/ HandleParseText
    \/ \E file \in PdfFiles : HandlePdfUpload(file)
    \/ PdfExtracted
    \/ \E index \in 0..1 : RemoveQuestion(index)
    \/ ResetParse

SpecImport == InitImport /\ [][NextImport]_vars

\* what the example is to be read as
CanonicalRecords ==
    <<[questionText |-> Trim[SampleQuestion1], correctAnswer |-> <<"B">>],
      [questionText |-> Trim[SampleQuestion2], correctAnswer |-> <<"A", ",", "C">>]>>

----------------------------------------------------------------------------
(* The REST routes of the study sets (src/unnamed/part_001, lines 1-146) *)

\* the users that the auth middleware sets req.userId to
Users == {"U", "V"}

\* the values of req.params.id: the _ids of the collection, and one string
\* that is not an ObjectId
NotAnObjectId == 0
SetIds == 1..MaxSets
ParamIds == SetIds \cup {NotAnObjectId}

\* the request bodies: title, and questions when the body has them
ValidQuestion == [questionText |-> <<"q">>, correctAnswer |-> <<"A">>]
InvalidQuestion == [questionText |-> <<>>, correctAnswer |-> <<"A">>]
Bodies ==
    [title : {<<" ", "a">>, <<>>},
     questions : {<<>>, <<ValidQuestion>>, <<InvalidQuestion>>},
     hasQuestions : BOOLEAN]

\* the validation of studySetSchema and questionSchema: title is trimmed
\* and required, questionText and correctAnswer are required
IsValid(title, questions) ==
    /\ Trim[title] # <<>>
    /\ \A k \in 1..Len(questions) :
           questions[k].questionText # <<>> /\ questions[k].correctAnswer # <<>>

\* the set as the routes send it
Formatted(id) ==
    [id |-> id,
     title |-> studySets[id].title,
     questions |-> studySets[id].questions,
     createdAt |-> studySets[id].createdAt,
     updatedAt |-> studySets[id].updatedAt]

ServerError == [status |-> 500, body |-> <<"Server error">>]
NotFound == [status |-> 404, body |-> <<"Set not found">>]

\* StudySet.findOne({ _id: id }), the query as it would be without the user
findOneOfAnyUser(id, userId) ==
    {found \in DOMAIN studySets : found = id}

\* StudySet.findOne({ _id: id, user: userId }): the set of the _id found,
\* {} for null
findOne(id, userId) ==
    {found \in DOMAIN studySets : found = id /\ studySets[found].user = userId}

\* the _ids of a set of documents, latest updatedAt first
RECURSIVE SortByUpdatedAt(_)
SortByUpdatedAt(ids) ==
    IF ids = {} THEN <<>>
    ELSE LET latest == CHOOSE i \in ids :
                           \A j \in ids : studySets[j].updatedAt <= studySets[i].updatedAt
         IN  <<latest>> \o SortByUpdatedAt(ids \ {latest})

\* the collection without document id
Without(id) == [i \in DOMAIN studySets \ {id} |-> studySets[i]]

\* the collection with document id set to doc
With(id, doc) ==
    [i \in DOMAIN studySets \cup {id} |-> IF i = id THEN doc ELSE studySets[i]]

\* router.get('/')
GetSets(userId) ==
    /\ request' = [method |-> "GET /", userId |-> userId, id |-> NotAnObjectId]
    /\ LET found == {i \in DOMAIN studySets : studySets[i].user = userId}
           sorted == SortByUpdatedAt(found)
       IN  response' = [status |-> 200,
                        body |-> [k \in 1..Len(sorted) |-> Formatted(sorted[k])]]
    /\ UNCHANGED <<studySets, clock, created, pendingPut, nonServerVars>>

\* router.get('/:id')
GetSet(userId, id) ==
    /\ request' = [method |-> "GET", userId |-> userId, id |-> id]
    /\ IF id = NotAnObjectId THEN response' = ServerError
       ELSE IF findOne(id, userId) = {} THEN response' = NotFound
       ELSE response' = [status |-> 200, body |-> <<Formatted(id)>>]
    /\ UNCHANGED <<studySets, clock, created, pendingPut, nonServerVars>>

\* router.post('/')
PostSet(userId, body) ==
    /\ created < MaxSets
    /\ clock < MaxClock
    /\ request' = [method |-> "POST", userId |-> userId, id |-> NotAnObjectId]
    /\ IF ~body.hasQuestions \/ ~IsValid(body.title, body.questions)
       THEN /\ response' = ServerError
            /\ UNCHANGED <<studySets, clock, created>>
       ELSE /\ created' = created + 1
            /\ clock' = clock + 1
            /\ studySets' = With(created', [user |-> userId,
                                            title |-> Trim[body.title],
                                            questions |-> body.questions,
                                            createdAt |-> clock',
                                            updatedAt |-> clock'])
            /\ response' = [status |-> 201,
                            body |-> <<[id |-> created',
                                        title |-> Trim[body.title],
                                        questions |-> body.questions,
                                        createdAt |-> clock',
                                        updatedAt |-> clock']>>]
    /\ UNCHANGED <<pendingPut, nonServerVars>>

\* router.put('/:id') up to await set.save(); one PUT is saving at a time
PutSet(userId, id, body) ==
    /\ pendingPut = {}
    /\ request' = [method |-> "PUT", userId |-> userId, id |-> id]
    /\ IF id = NotAnObjectId
       THEN response' = ServerError /\ UNCHANGED pendingPut
       ELSE IF findOne(id, userId) = {}
       THEN response' = NotFound /\ UNCHANGED pendingPut
       ELSE IF ~body.hasQuestions
       THEN response' = ServerError /\ UNCHANGED pendingPut
       ELSE /\ pendingPut' = {[userId |-> userId, id |-> id, title |-> body.title,
                               questions |-> body.questions]}
            /\ UNCHANGED response
    /\ UNCHANGED <<studySets, clock, created, nonServerVars>>

\* router.put('/:id') from await set.save() on: the document is validated
\* and written by its _id; when it has been deleted meanwhile, save() fails
\* or writes nothing, by the version of mongoose
PutSaved ==
    \E put \in pendingPut :
        /\ clock < MaxClock
        /\ request' = [method |-> "PUT", userId |-> put.userId, id |-> put.id]
        /\ pendingPut' = {}
        /\ IF ~IsValid(put.title, put.questions)
           THEN /\ response' = ServerError
                /\ UNCHANGED <<studySets, clock>>
           ELSE IF put.id \notin DOMAIN studySets
           THEN /\ clock' = clock + 1
                /\ \/ response' = ServerError
                   \/ response' = [status |-> 200,
                                   body |-> <<[id |-> put.id,
                                               title |-> Trim[put.title],
                                               questions |-> put.questions,
                                               createdAt |-> 0,
                                               updatedAt |-> clock']>>]
                /\ UNCHANGED studySets
           ELSE /\ clock' = clock + 1
                /\ studySets' = With(put.id, [studySets[put.id] EXCEPT
                                                 !.title = Trim[put.title],
                                                 !.questions = put.questions,
                                                 !.updatedAt = clock'])
                /\ response' = [status |-> 200,
                                body |-> <<[id |-> put.id,
                                            title |-> Trim[put.title],
                                            questions |-> put.questions,
                                            createdAt |-> studySets[put.id].createdAt,
                                            updatedAt |-> clock']>>]
        /\ UNCHANGED <<created, nonServerVars>>

\* router.delete('/:id')
DeleteSet(userId, id) ==
    /\ request' = [method |-> "DELETE", userId |-> userId, id |-> id]
    /\ IF id = NotAnObjectId
       THEN response' = ServerError /\ UNCHANGED studySets
       ELSE IF findOne(id, userId) = {}
       THEN response' = NotFound /\ UNCHANGED studySets
       ELSE /\ studySets' = Without(id)
            /\ response' = [status |-> 200, body |-> <<"Set deleted">>]
    /\ UNCHANGED <<clock, created, pendingPut, nonServerVars>>

InitServer ==
    /\ LearnInit
    /\ GradeIdle
    /\ ParseIdle
    /\ ImportIdle
    /\ ServerIdle
    /\ ExtractIdle

NextServer ==
    \/ \E userId \in Users : GetSets(userId)
    \/ \E userId \in Users, id \in ParamIds : GetSet(userId, id)
    \/ \E userId \in Users, body \in Bodies : PostSet(userId, body)
    \/ \E userId \in Users, id \in ParamIds, body \in Bodies : PutSet(userId, id, body)
    \/ PutSaved
    \/ \E userId \in Users, id \in ParamIds : DeleteSet(userId, id)

SpecServer == InitServer /\ [][NextServer]_vars

\* the request handled in this step names a stored set of another user
ForeignSetRequested ==
    /\ request'.method \in {"GET", "PUT", "DELETE"}
    /\ request'.id \in DOMAIN studySets
    /\ studySets[request'.id].user # request'.userId

----------------------------------------------------------------------------
(* Phases of the drill *)

Complete == isComplete
Review == ~isComplete /\ isReviewMode
Primary == ~isComplete /\ ~isReviewMode

----------------------------------------------------------------------------
(* Claims *)

\* C1: at the moment the session is Complete, masteredCount equals the
\* number of questions.
C1_MasteredCountAtComplete == isComplete => masteredCount = NumQuestions

\* C2: a session in which the user keeps answering and advancing reaches
\* the Complete phase.
C2_EventuallyComplete == <>isComplete

\* C3: the session is never Complete while some question has not been
\* answered correctly during the session.
C3_NoQuestionDropped == isComplete => answeredCorrectly = QuestionIndices

\* C4: once the session has left the Primary phase, no step makes
\* wrongIndices longer.
C4_QueueNeverGrowsAfterPrimary ==
    [][(isReviewMode \/ isComplete) => Len(wrongIndices') <= Len(wrongIndices)]_vars

\* C4 witness: an incorrect answer has been recorded in the Review phase
C4_Witness ==
    /\ Review /\ ~renderError
    /\ showAnswer /\ isCorrect = "false"
    /\ Len(wrongIndices) >= 2

\* C5: wrongIndices never holds the same question index twice, also in a
\* session that was left and resumed from the saved progress.
C5_NoDuplicateWrongIndices ==
    \A i, j \in 1..Len(wrongIndices) : i # j => wrongIndices[i] # wrongIndices[j]

\* C5 witness: the session was resumed at a question that was already in
\* wrongIndices, and that question has been answered incorrectly again
C5_Witness ==
    /\ mounted /\ ~renderError /\ ~isReviewMode
    /\ showAnswer /\ isCorrect = "false"
    /\ \E progress \in savedProgress :
           /\ progress.currentIndex = currentIndex
           /\ currentIndex \in Range(progress.wrongIndices)
    /\ currentIndex \in Range(wrongIndices)

\* C6: restart() leaves exactly the initial state: currentIndex 0, no wrong
\* indices, not in review, not complete, masteredCount 0, reviewIndex 0, no
\* selection and no feedback.
C6_RestartResets == [][Restart => CurrentRender' = InitialState]_vars

\* C6 witness: a restarted session; the timer of the last correct answer of
\* the session before is still pending
C6_Witness == CurrentRender = InitialState /\ timers # <<>> /\ ~renderError

\* C7: once the session is Complete, no step other than restart() changes
\* masteredCount or wrongIndices.
C7_CompleteIsTerminal ==
    [][(isComplete /\ ~Restart) =>
           (masteredCount' = masteredCount /\ wrongIndices' = wrongIndices)]_vars

\* C8: a correctAnswer with a repeated letter is graded as the set of its
\* letters: a non-empty selection of exactly the letters of correctAnswer is
\* correct (selected A, C against "A,C,A").
C8_DuplicateLettersGradeAsSet ==
    (gSelected # <<>> /\ Range(gSelected) = Range(getCorrectAnswers(gCorrect)))
        => gResult = TRUE

\* C9: the grade is false for the empty selection, for a selection that lacks
\* a letter of correctAnswer and for one that has a letter not in it.
C9_StrictGrading ==
    (\/ gSelected = <<>>
     \/ \E l \in Range(getCorrectAnswers(gCorrect)) : l \notin Range(gSelected)
     \/ \E l \in Range(gSelected) : l \notin Range(getCorrectAnswers(gCorrect)))
        => gResult = FALSE

\* C9 witness: A and C selected where only A is right
C9_Witness ==
    gSelected = <<LetterC, LetterA>> /\ gCorrect = <<"a">> /\ gResult = FALSE

\* C10: the grade does not change when the selected letters or the tokens of
\* correctAnswer are permuted, nor with the case of a token or the blanks
\* around it (each step of the grader's specification is one such change).
C10_OrderIndependent == [][gResult' = gResult]_vars

\* C10 witness: selection and tokens reordered, a token in lower case and one
\* with a blank, graded correct
C10_Witness ==
    /\ gSelected = <<LetterC, LetterA>>
    /\ gCorrect = <<" ", "C", " ", ",", "a">>
    /\ gResult = TRUE

\* C11: the choices parseChoices returns have pairwise distinct letters in
\* ascending order, in LearnMode and in SetView, wherever the markers stand in
\* the text.
C11_ChoicesDistinctAndSorted ==
    /\ StrictlyAscending(LettersOf(pResult.choices))
    /\ StrictlyAscending(LettersOf(pSetView.choices))

\* C11 witness: "B. x A. x" is parsed into the choices A, B
C11_Witness ==
    /\ pText = <<"B", ".", " ", "x", " ", "A", ".", " ", "x">>
    /\ LettersOf(pResult.choices) = <<LetterA, LetterB>>
    /\ LettersOf(pSetView.choices) = <<LetterA, LetterB>>

\* C12: parsing the example of the import screen (two questions with the
\* choices A to D, "Answer: B" and "Answer: A, C") gives exactly two records
\* in the order of the document: the first has correctAnswer "B" and the
\* text from "What is 2 + 2?" through choice D, the second has correctAnswer
\* "A,C" and the text from "Which are primary colors?" on, with nothing left
\* of the first answer key; in both copies of the importer
C12_CanonicalSample ==
    [][(bulkText = CanonicalSample /\ HandleParseText)
           => parsedQuestions' = CanonicalRecords]_vars

C12_Witness ==
    /\ build = "part_005"
    /\ bulkText = CanonicalSample
    /\ isParsed
    /\ parsedQuestions = CanonicalRecords
    /\ Len(parsedQuestions[2].questionText) > 10
    /\ parsedQuestions[2].questionText[1] = "W"

\* C13: when parseQuestions finds no question (as for a text that is only
\* an "Explanation:" block, without "Answer:"), the import ends with a
\* message and nothing else: handleParseText leaves the list of parsed
\* questions empty, the importer un-parsed and the text as it is;
\* handlePdfUpload puts the extracted text in the text box, turns to the
\* text tab and leaves the list and the flag as they are, empty and
\* un-parsed if no text was parsed while the file was read
C13_ZeroCandidatesNotFatal ==
    [][/\ (/\ HandleParseText
           /\ ParseQuestionsOf(build, bulkText) = <<>>)
          => /\ error' \in {PleasePaste, CouldNotParse}
             /\ parsedQuestions' = <<>>
             /\ ~isParsed'
             /\ bulkText' = bulkText
             /\ mode' = "text"
       /\ (/\ PdfExtracted
           /\ \E file \in pdfUpload :
                  /\ file.readable
                  /\ ParseQuestionsOf(build, ExtractText(file.pages)) = <<>>)
          => /\ error' = CouldNotFind
             /\ parsedQuestions' = parsedQuestions
             /\ isParsed' = isParsed
             /\ ~isParsed => parsedQuestions' = <<>>
             /\ \E file \in pdfUpload : bulkText' = ExtractText(file.pages)
             /\ mode' = "text"
             /\ ~isLoading']_vars

C13_Witness ==
    /\ bulkText = ExplanationBlock
    /\ error = CouldNotParse
    /\ parsedQuestions = <<>>
    /\ ~isParsed
    /\ mode = "text"

\* C14: a GET, PUT or DELETE of /sets/:id by a user who does not own the
\* stored set answers 404 and leaves the collection as it is, and GET /sets
\* lists only sets of the user who asks
C14_ForeignSetsAreHidden ==
    [][/\ ForeignSetRequested => (response' = NotFound /\ studySets' = studySets)
       /\ request'.method = "GET /"
              => \A k \in 1..Len(response'.body) :
                     studySets[response'.body[k].id].user = request'.userId]_vars

C14_Witness ==
    /\ request.method = "DELETE"
    /\ request.id \in DOMAIN studySets
    /\ studySets[request.id].user = "V"
    /\ request.userId = "U"
    /\ response = NotFound
    /\ \E i \in DOMAIN studySets : studySets[i].user = "U"

\* a step that runs advanceToNext on the mounted component: the Continue
\* button, or the auto-advance timer of a correct answer
AdvanceStep == NextQuestion \/ (mounted /\ ~renderError /\ TimerFires)

\* C15: in the Primary phase, advanceToNext at an index that is not the last
\* adds one to currentIndex and keeps the phase; at the last index it keeps
\* currentIndex and goes to Review with reviewIndex 0 when wrongIndices is
\* not empty, and to Complete when wrongIndices is empty
C15_PrimaryAdvance ==
    [][(Primary /\ AdvanceStep)
          => IF currentIndex < NumQuestions - 1
             THEN currentIndex' = currentIndex + 1 /\ Primary'
             ELSE /\ currentIndex' = currentIndex
                  /\ IF wrongIndices # <<>>
                     THEN Review' /\ reviewIndex' = 0
                     ELSE Complete']_vars

\* C16: in the Review phase, advanceToNext after a correct answer removes
\* exactly the entry at reviewIndex from wrongIndices and keeps the order of
\* the others; when wrongIndices becomes empty the phase becomes Complete,
\* otherwise reviewIndex becomes 0 when it is past the end of the shorter
\* wrongIndices and stays as it is when it is not
C16_ReviewAdvanceAfterCorrect ==
    [][(Review /\ showAnswer /\ isCorrect = "true" /\ AdvanceStep)
          => /\ wrongIndices' = FilterOutIndex[wrongIndices, reviewIndex]
             /\ IF wrongIndices' = <<>>
                THEN Complete'
                ELSE /\ Review'
                     /\ reviewIndex' = IF reviewIndex >= Len(wrongIndices')
                                       THEN 0 ELSE reviewIndex]_vars

\* the greater of two numbers
Max(a, b) == IF a >= b THEN a ELSE b

CurrentQuestion == Questions(CurrentQuestionIndex(CurrentRender))
isMultipleAnswer == hasMultipleAnswers(CurrentQuestion.correctAnswer)

\* C18: a click on a choice of a question with several answers only changes
\* the selection (masteredCount and wrongIndices stay, nothing is graded);
\* such a question is graded only by the Check Answer button, and only with
\* a selection that is not empty; a click on a choice of a question with one
\* answer grades that one letter at once; while the answer is shown, no
\* click on a choice and no Check Answer is taken
C18_GradingSteps ==
    [][/\ \A letter \in {LetterA, LetterB} :
              ToggleAnswer(letter)
                  => IF isMultipleAnswer
                     THEN /\ masteredCount' = masteredCount
                          /\ wrongIndices' = wrongIndices
                          /\ ~showAnswer'
                          /\ isCorrect' = "null"
                     ELSE /\ showAnswer'
                          /\ selectedAnswers' = <<letter>>
                          /\ isCorrect' = IF checkAnswer(<<letter>>,
                                                         CurrentQuestion.correctAnswer)
                                          THEN "true" ELSE "false"
       /\ (CardShown /\ isMultipleAnswer /\ ~showAnswer /\ showAnswer')
              => (SubmitMultipleAnswers /\ selectedAnswers # <<>>)
       /\ showAnswer
              => /\ ~SubmitMultipleAnswers
                 /\ \A letter \in {LetterA, LetterB} : ~ToggleAnswer(letter)]_vars

C18_Witness ==
    /\ CardShown
    /\ isMultipleAnswer
    /\ showAnswer
    /\ selectedAnswers = <<LetterB, LetterA>>
    /\ isCorrect = "true"
    /\ masteredCount = 1

\* a lettered choice stands at position p of text: a marker of a letter of
\* `range`, a blank, and text that is not itself the start of the next choice
ChoiceAt(range, text, p) ==
    /\ MarkerAt(range, text, p)
    /\ p + 3 <= Len(text)
    /\ IsSpace(text[p + 2])
    /\ ~IsSpace(text[p + 3])
    /\ ~LookaheadAt(range, text, p + 3)

\* the letters of the lettered choices that stand in text
ChoiceLettersIn(range, text) ==
    {<<UpperChar(text[p])>> : p \in {i \in 1..Len(text) : ChoiceAt(range, text, i)}}

\* the letters LearnMode shows a button for
ButtonLetters == {pResult.choices[k].letter : k \in 1..Len(pResult.choices)}

\* C19: every lettered choice A to J that stands in the questionText, the
\* letters F to J included, is among the choices that LearnMode's
\* parseChoices returns. The code does not satisfy this: its regular
\* expression is written with [A-E].
C19_EveryKeyLetterIsAChoice ==
    ChoiceLettersIn(KeyRange, pText) \subseteq ButtonLetters

----------------------------------------------------------------------------
(* A study set with a free-response question *)

\* a questionText with the lettered choices A and B, and a questionText
\* without choices
TextWithChoices == <<"x", " ", "A", ".", " ", "x", " ", "B", ".", " ", "x">>
FreeResponseText == <<"x", "?">>

\* the letters of the choice buttons that LearnMode renders for a
\* questionText: one button for each choice that parseChoices returns
ChoiceButtons(questionText) ==
    LET choices == parseChoices(questionText).choices
    IN  {choices[k].letter : k \in 1..Len(choices)}

\* two questions with choices and, last, a free-response question, whose
\* correctAnswer is its answer in words
FreeResponseBank ==
    <<[letters |-> ChoiceButtons(TextWithChoices), correctAnswer |-> <<"B">>],
      [letters |-> ChoiceButtons(TextWithChoices), correctAnswer |-> <<"A", ",", "B">>],
      [letters |-> ChoiceButtons(FreeResponseText), correctAnswer |-> <<"x">>]>>

InitFreeResponse ==
    /\ studySet = FreeResponseBank
    /\ LearnMounted
    /\ GradeIdle
    /\ ParseIdle
    /\ ImportIdle
    /\ ServerIdle
    /\ ExtractIdle

SpecFreeResponse == InitFreeResponse /\ [][Next]_vars

\* what the user can do on the card to get past its question: click a
\* choice, press Check Answer, press Continue or Got it
CardStep ==
    \/ \E letter \in {LetterA, LetterB} : ToggleAnswer(letter)
    \/ SubmitMultipleAnswers
    \/ NextQuestion

\* C20: while the card shows a question without choices, the user can do
\* something on the card to get past it. The code does not satisfy this: the
\* card has no button that is rendered and enabled for such a question.
C20_FreeResponseCanBePassed ==
    (CardShown /\ CurrentQuestion.letters = {}) => ENABLED CardStep

\* the positions of text where a choice marker of `range` stands
MarkersIn(range, text) == {p \in 1..Len(text) : MarkerAt(range, text, p)}

\* what the stem of text is to be: the text before its earliest choice
\* marker, or the whole text when it has none, collapsed and trimmed
StemBeforeFirstMarker(range, text) ==
    IF MarkersIn(range, text) = {}
    THEN Trim[CollapseSpaces[text]]
    ELSE Trim[CollapseSpaces[SubSeq(text, 1, Least(MarkersIn(range, text)) - 1)]]

\* C21: the stem that parseChoices returns is the text before the earliest
\* choice marker, collapsed and trimmed, and so holds no choice marker; for a
\* text without choice marker it is the whole text, collapsed and trimmed,
\* and the choice list is empty. In LearnMode and in SetView. The code does
\* not satisfy this: it cuts the text at the earliest marker whose choice it
\* kept.
C21_StemBeforeFirstMarker ==
    /\ pResult.questionPart = StemBeforeFirstMarker(LearnChoiceRange, pText)
    /\ pSetView.questionPart = StemBeforeFirstMarker(SetViewChoiceRange, pText)
    /\ MarkersIn(LearnChoiceRange, pResult.questionPart) = {}
    /\ MarkersIn(SetViewChoiceRange, pSetView.questionPart) = {}
    /\ MarkersIn(LearnChoiceRange, pText) = {} => pResult.choices = <<>>
    /\ MarkersIn(SetViewChoiceRange, pText) = {} => pSetView.choices = <<>>

----------------------------------------------------------------------------
(* The bulk importer's parseQuestions on generated documents *)

\* how many blocks a generated document has at most
MaxBlocks == 2

\* what a block of a document is written from: a "Question: N" label, a stem
\* of more than 10 characters with its choices (one stem starts with a letter
\* of A-J and has two choices, one does not and has four), the "Answer:"
\* marker, and a section that follows the answer key
LabelText ==
    <<"Q", "u", "e", "s", "t", "i", "o", "n", ":", " ", "1", "\n">>

StemDefine ==
    <<"D", "e", "f", "i", "n", "e", " ", "t", "h", "e", " ", "x", ":",
      "\n", "A", ".", " ", "1", "\n", "B", ".", " ", "2", "\n">>

StemWhat ==
    <<"W", "h", "a", "t", " ", "i", "s", " ", "t", "h", "e", " ", "x", "?",
      "\n", "A", ".", " ", "1", "\n", "B", ".", " ", "2", "\n", "C", ".",
      " ", "3", "\n", "D", ".", " ", "4", "\n">>

AnswerMarker ==
    <<"A", "n", "s", "w", "e", "r", ":", " ">>

ExplanationSection ==
    <<"E", "x", "p", "l", "a", "n", "a", "t", "i", "o", "n", ":", " ", "s",
      "o", "\n">>

ReferenceSection ==
    <<"R", "e", "f", "e", "r", "e", "n", "c", "e", ":", " ", "p", "3",
      "\n">>

\* the answer keys: as written, and the letters the author named in their
\* order; the last one does not start with a letter of A-J
KeyB == [text |-> <<"B">>, letters |-> <<"B">>]
KeyAC == [text |-> <<"A", "C">>, letters |-> <<"A", "C">>]
KeyCAC ==
    [text |-> <<"c", ",", " ", "a", ",", " ", "C">>, letters |-> <<"C", "A">>]
KeyBandC ==
    [text |-> <<"B", " ", "a", "n", "d", " ", "C">>, letters |-> <<"B", "C">>]
KeyMalformed ==
    [text |-> <<"s", "e", "e", " ", "k", "e", "y">>, letters |-> <<>>]
Keys == {KeyB, KeyAC, KeyCAC, KeyBandC, KeyMalformed}

\* the blocks: a label only before the stem "What ...", a section only after
\* the key "B"
BlockKinds ==
    {b \in [label : BOOLEAN, stem : {StemDefine, StemWhat}, key : Keys,
            section : {<<>>, ExplanationSection, ReferenceSection}] :
        /\ b.label => b.stem = StemWhat
        /\ b.section # <<>> => b.key = KeyB}

\* the text of a block
BlockText(b) ==
    (IF b.label THEN LabelText ELSE <<>>) \o b.stem \o AnswerMarker
        \o b.key.text \o <<"\n">> \o b.section

\* a block is well-formed when its answer key starts with a letter of A-J
WellFormed(b) == b.key.letters # <<>>

InitExtract ==
    /\ LearnInit
    /\ GradeIdle
    /\ ParseIdle
    /\ ImportIdle
    /\ ServerIdle
    /\ ExtractIdle

\* one more block at the end of the document, and the document parsed again
AppendBlock(b) ==
    /\ Len(dBlocks) < MaxBlocks
    /\ dBlocks' = Append(dBlocks, b)
    /\ dText' = dText \o BlockText(b)
    /\ dRecords' = parseQuestions(dText')
    /\ dRecordsBulkImport' = parseQuestionsBulkImport(dText')
    /\ UNCHANGED nonExtractVars

NextExtract == \E b \in BlockKinds : AppendBlock(b)

SpecExtract == InitExtract /\ [][NextExtract]_vars

\* the well-formed blocks of the document, in its order
WellFormedBlocks == SelectSeq(dBlocks, WellFormed)

\* C22: when the document has one record for each "Answer:" marker with a
\* well-formed key, the correctAnswer of each record is the letters that its
\* answer key names, upper-cased, each once, in the order of their first
\* occurrence, joined by commas ("AC" gives "A,C", "c, a, C" gives "C,A",
\* "B and C" gives "B,C"). The code does not satisfy this.
C22_CorrectAnswerIsTheKey ==
    Len(dRecords) = Len(WellFormedBlocks)
        => \A k \in 1..Len(dRecords) :
               dRecords[k].correctAnswer = JoinLetters(WellFormedBlocks[k].key.letters)

\* the text of a document written from blocks
RECURSIVE DocumentOf(_)
DocumentOf(blocks) ==
    IF blocks = <<>> THEN <<>>
    ELSE BlockText(Head(blocks)) \o DocumentOf(Tail(blocks))

\* C23: an "Answer:" marker that no letter of A-J follows gives no record,
\* and the records of the document are those of the document without the
\* blocks of such markers, in the same order. The code does not satisfy
\* this: what stands after such a marker stays at the head of the next
\* record's questionText.
C23_MalformedCandidateIsDropped ==
    dRecords = parseQuestions(DocumentOf(WellFormedBlocks))

\* each record after the first is the stem of its block, with its choices:
\* without the answer key of the block before and without the label
CleanAfterFirst(records) ==
    \A k \in 2..Len(records) : records[k].questionText = Trim[dBlocks[k].stem]

\* C24: when the document has one record for each block, the questionText of
\* each record after the first holds nothing of the answer key before it,
\* whether that key is one letter or several, however separated, and no
\* "Question: N" label; in both copies of the importer (the older one removes
\* no sections: it is looked at on the documents without sections). The code
\* does not satisfy this: it strips one run of letters
\* (src/unnamed/part_005), or letters separated by commas (BulkImport.tsx).
C24_NoRemnantOfPreviousKey ==
    /\ Len(dRecords) = Len(dBlocks) => CleanAfterFirst(dRecords)
    /\ (/\ Len(dRecordsBulkImport) = Len(dBlocks)
        /\ \A k \in 1..Len(dBlocks) : dBlocks[k].section = <<>>)
           => CleanAfterFirst(dRecordsBulkImport)

\* the state that React is to render after the Continue / Got it button, and
\* after the oldest pending timer
AdvancedByButton == advanceToNext(CurrentRender, Closure(CurrentRender), FALSE)
AdvancedByTimer == advanceToNext(CurrentRender, Head(timers), TRUE)

\* in the Review phase, getCurrentQuestion of the state st reads an entry of
\* wrongIndices that exists
ReviewCursorInRange(st) ==
    (st.isReviewMode /\ ~st.isComplete)
        => st.reviewIndex \in 0..(Len(st.wrongIndices) - 1)

\* C25: in the Review phase reviewIndex is an index of wrongIndices, in every
\* state that is rendered and in every state that an advance hands to the
\* render, also when Continue is pressed while the timer of the same correct
\* answer is pending. The code does not satisfy this.
C25_ReviewCursorInRange ==
    [][/\ ReviewCursorInRange(CurrentRender')
       /\ NextQuestion => ReviewCursorInRange(AdvancedByButton)
       /\ (mounted /\ ~renderError /\ TimerFires)
              => ReviewCursorInRange(AdvancedByTimer)]_vars

\* C26: in the Primary phase the cursor leaves a question only when that
\* question has been graded (its answer is shown), and then by one: a step
\* that changes currentIndex adds one to it, a step that ends the phase is
\* taken at the last index, and both are taken while the answer is shown. So
\* no index is passed without being graded. The code does not satisfy this:
\* the timer of a correct answer and the Continue button both advance.
C26_OneAdvancePerGradedAnswer ==
    [][/\ (Primary /\ currentIndex' # currentIndex)
              => (showAnswer /\ currentIndex' = currentIndex + 1)
       /\ (Primary /\ ~Primary')
              => (showAnswer /\ currentIndex = NumQuestions - 1)]_vars

\* C27: in a session that may be left and resumed from the saved progress,
\* masteredCount never exceeds the number of questions, and it equals that
\* number when the session is Complete. The code does not satisfy this: a
\* correct answer is counted and saved before the advance, and after a
\* resume the same question is presented and counted again.
C27_ResumeKeepsMasteredCount ==
    /\ masteredCount <= NumQuestions
    /\ isComplete => masteredCount = NumQuestions

----------------------------------------------------------------------------
(* Studying a range of the set *)

\* handleStart of StudyConfig, then handleStudyConfigStart of App: the
\* subset studySet.questions.slice(rangeStart - 1, rangeEnd) keeps the id of
\* the set, and LearnMode is mounted on it. handleStartChange and
\* handleEndChange keep 1 <= rangeStart <= rangeEnd <= totalQuestions.
HandleStart(rangeStart, rangeEnd) ==
    /\ rangeStart \in 1..NumQuestions
    /\ rangeEnd \in rangeStart..NumQuestions
    /\ studySet' = SubSeq(AllQuestions, rangeStart, rangeEnd)
    /\ MountOn(studySet')
    /\ UNCHANGED <<gradeVars, parseVars, importVars, serverVars, extractVars>>

NextRange ==
    \/ NextResume
    \/ \E rangeStart, rangeEnd \in 1..NumQuestions : HandleStart(rangeStart, rangeEnd)

SpecRange == Init /\ [][NextRange]_vars

\* the indices of a saved record or of a state index existing questions of
\* the mounted study set
RefersToStudySet(st) ==
    /\ st.currentIndex \in QuestionIndices
    /\ \A k \in 1..Len(st.wrongIndices) : st.wrongIndices[k] \in QuestionIndices
    /\ st.isReviewMode => st.reviewIndex \in 0..(Len(st.wrongIndices) - 1)

\* C28: the saved progress that the resume prompt offers, and the state that
\* resumeProgress sets from it, index only existing questions of the mounted
\* study set (currentIndex, every entry of wrongIndices, and reviewIndex in
\* review), also when the set is another range of the same id; the render
\* after the resume does not throw.
C28_ResumedProgressRefersToStudySet ==
    [][/\ showResumePrompt' => \A progress \in savedProgress' : RefersToStudySet(progress)
       /\ ResumeProgress => (~renderError' /\ RefersToStudySet(CurrentRender'))]_vars

\* progress of the whole set, with a wrong answer recorded, was resumed on a
\* range of the set
C28_Witness ==
    /\ mounted /\ ~renderError
    /\ ~showResumePrompt /\ savedProgress # {}
    /\ studySet # AllQuestions
    /\ wrongIndices # <<>>
    /\ \A progress \in savedProgress : currentIndex = progress.currentIndex

\* the letters of a correctAnswer "X,Y,..."
AnswerLetters(correctAnswer) == {c \in Range(correctAnswer) : c # ","}

\* every letter of each record's correctAnswer is a letter named by the
\* answer key of the record's block
OnlyKeyLetters(records) ==
    \A k \in 1..Len(records) :
        AnswerLetters(records[k].correctAnswer) \subseteq Range(WellFormedBlocks[k].key.letters)

\* C29: when the document has one record for each "Answer:" marker with a
\* well-formed key, the correctAnswer of each record holds only letters that
\* are written in the answer key of its block, and no character of what
\* follows the key (the first letter of the next stem, the letters of a
\* following word); in both copies of the importer. The code does not
\* satisfy this.
C29_OnlyLettersOfTheKey ==
    /\ Len(dRecords) = Len(WellFormedBlocks) => OnlyKeyLetters(dRecords)
    /\ Len(dRecordsBulkImport) = Len(WellFormedBlocks) => OnlyKeyLetters(dRecordsBulkImport)

\* C30: a document of well-formed blocks, each with or without a "Question:
\* N" label and with or without an "Explanation:" or "Reference:" section
\* after its key, gives exactly one record for each block: the removal of a
\* section takes away no stem and no "Answer:" marker of a later block. The
\* code does not satisfy this.
C30_OneRecordForEachBlock ==
    (\A k \in 1..Len(dBlocks) : WellFormed(dBlocks[k]))
        => Len(dRecords) = Len(dBlocks)

====
